---- MODULE Spec2Model ----
(***************************************************************************)
(* Quiz App (Lozzalingo/quiz-app): the answer lifecycle of one game.       *)
(*                                                                         *)
(* The persisted rows (Game, Round, Team, Answer, ResubmitPermission) are  *)
(* the shared state.  Every admin endpoint commits once, so it is one      *)
(* atomic action.  submit_round reads (round, answers, permission), then   *)
(* builds its writes in the session and flushes them in one commit: it is  *)
(* two actions, submit_round_check and submit_round_commit, and other      *)
(* requests may commit between them (PostgreSQL READ COMMITTED, no row     *)
(* lock is taken by the handler).                                          *)
(***************************************************************************)
EXTENDS Integers, Sequences, FiniteSets, TLC

\* ---------------------------------------------------------------- bounds
MaxRounds  == 2      \* rounds that can exist in the game
MaxOrder   == 2      \* largest order value reorder_rounds is called with
MaxAnswers == 4      \* Answer rows that can exist
MaxPermId  == 2      \* ResubmitPermission primary keys that can be issued
MaxAway    == 2      \* seconds of away time tick_away_time can add up to
MaxSwitch  == 1      \* tab switches report_tab_switch can count

\* ------------------------------------------------------------ fixed data
None    == 0                       \* SQL NULL for integer columns
GameId  == 1                       \* the game under study
Teams   == {1, 2}                  \* Team.id
TeamGame == <<1, 2, 1, 1>>         \* Team.game_id by team id (team 2 plays another
                                   \* game; teams 3 and 4 exist in the ranking
                                   \* specification only)
Texts   == {"a", "b"}              \* submitted answer texts
QIds    == {"q1", "q2"}            \* question ids
QuestionLists == {<< >>, <<"q1", "q2">>}   \* bodies sent to update_questions
Reqs    == {1, 2}                  \* the two submit_round requests that may overlap

VARIABLES
    game,      \* Game row: [is_finished, pause_mode, tab_penalty_enabled]
    rounds,    \* Round rows: id -> [game_id, parent_id, order, is_open, questions,
               \* betting_results]
    answers,   \* Answer rows: set of [id, team_id, round_id, question_id,
               \* answer_text, points, bonus_points, penalty_points]
    perms,     \* ResubmitPermission rows: set of [id, team_id, round_id]
    nextPermId,\* next value of the resubmit_permission id sequence
    reqs,      \* submit_round requests between their reads and their commit:
               \* slot -> [pc, team, round, text, questions, existing, perm]
    last,      \* the response of the submit_round request that returned last:
               \* [result, team, round, text, perm]
    teams,     \* Team rows: id -> [tab_away_seconds, tab_switch_count,
               \* custom_scores], custom_scores a function from custom column
               \* ids to values
    job,       \* the admin recompute (set_betting_results, update_question)
               \* between its reads and its commit:
               \* [pc, kind, round, question, results, questions, rows, result]
    socket,    \* the Socket.IO server: [available, log], log the emits the
               \* request that returned last has attempted, each
               \* [source, name, round_id, question_id, team_id, answer_id, ok]
    calls      \* API requests that overlap, between their reads and their
               \* commit: slot -> [pc, op, team, round, seen, value, result]

vars == <<game, rounds, answers, perms, nextPermId, reqs, last, teams, job, socket,
          calls>>

RoundIds == DOMAIN rounds

\* ------------------------------------------------------------- questions
\* The question configurations, by question id: "q3" is a betting question
\* with two paying places and a stake of at most 3, "q4" and "q5" are betting
\* questions configured with max_bet 1 and max_bet 0, "q6" and "q7" are
\* ordering questions of three items (three different ones, and one that
\* occurs twice) with 2 points for an exact and 1 for an adjacent position,
\* "q8", "q9" and "q10" are estimate questions (correct answer 10 with the
\* default points 4, 3, 2, 1; correct answer 10 with points 1, 3, 2, 1; and
\* correct answer 0 with the default points), every other id a free-text
\* question with validation "a", 1 point, no penalty.
BetQId == "q3"

Question(qid) ==
    IF qid = BetQId
    THEN [id |-> qid, type |-> "betting", validation |-> "", points |-> 1,
          penalty_points |-> 0, max_bet |-> 3, multipliers |-> <<3, 2>>]
    ELSE IF qid \in {"q4", "q5"}
    THEN [id |-> qid, type |-> "betting", validation |-> "", points |-> 1,
          penalty_points |-> 0, max_bet |-> IF qid = "q4" THEN 1 ELSE 0,
          multipliers |-> <<3, 2>>]
    ELSE IF qid \in {"q6", "q7"}
    THEN [id |-> qid, type |-> "ordering", validation |-> "", points |-> 1,
          penalty_points |-> 0, max_bet |-> 3, multipliers |-> <<1>>,
          items |-> IF qid = "q6" THEN <<"A", "B", "C">> ELSE <<"A", "A", "B">>,
          points_exact |-> 2, points_adjacent |-> 1]
    ELSE IF qid \in {"q8", "q9", "q10"}
    THEN [id |-> qid, type |-> "estimate", validation |-> "", points |-> 1,
          penalty_points |-> 0, max_bet |-> 3, multipliers |-> <<1>>,
          correct_answer |-> IF qid = "q10" THEN "0" ELSE "10",
          points_exact |-> IF qid = "q9" THEN 1 ELSE 4,
          points_10 |-> 3, points_20 |-> 2, points_30 |-> 1]
    ELSE [id |-> qid, type |-> "text", validation |-> "a", points |-> 1,
          penalty_points |-> 0, max_bet |-> 3, multipliers |-> <<1>>]

\* utils.validate_text_answer on one-letter texts: an empty pattern accepts
\* everything, otherwise re.search(pattern, text) finds a one-letter pattern
\* exactly in the equal one-letter text.
validate_text_answer(user_answer, pattern_string) ==
    IF pattern_string = "" THEN TRUE ELSE user_answer = pattern_string

\* utils.py:340  answer.answer_text.strip().lower(), on the texts of the model
\* and their upper-case and padded spellings
Normalize(text) ==
    CASE text \in {"A", " a", "a "} -> "a"
      [] text \in {"B", " b", "b "} -> "b"
      [] OTHER -> text

\* float(text) of utils.py:288-289 and player.py:440-441 succeeds on these
\* numerals
IsNumber(text) == text \in {"0", "9", "10", "11", "12", "13", "14"}

NumberOf(text) ==
    CASE text = "0" -> 0 [] text = "9" -> 9 [] text = "10" -> 10 [] text = "11" -> 11
      [] text = "12" -> 12 [] text = "13" -> 13 [] text = "14" -> 14

\* the grading of an estimate with the configured points_30 in place of the
\* final 0
EstimatePoints_NoCutoff(q, answer_text) ==
    IF answer_text = "" \/ ~IsNumber(answer_text) \/ ~IsNumber(q.correct_answer) THEN 0
    ELSE LET player_answer == NumberOf(answer_text)
             correct_val   == NumberOf(q.correct_answer)
             diff  == IF player_answer < correct_val THEN correct_val - player_answer
                      ELSE player_answer - correct_val
             whole == IF correct_val < 0 THEN 0 - correct_val ELSE correct_val
         IN IF correct_val = 0
            THEN (IF player_answer = 0 THEN q.points_exact ELSE q.points_30)
            ELSE IF diff = 0 THEN q.points_exact
            ELSE IF 10 * diff <= whole THEN q.points_10
            ELSE IF 10 * diff <= 2 * whole THEN q.points_20
            ELSE q.points_30

\* utils.py:275-310 and, line for line, player.py:427-462: the points of an
\* estimate.  pct_diff = |player - correct| / |correct| is compared with
\* 0.10, 0.20 and 0.30 in tenths: pct_diff <= n/10 iff 10 * |player -
\* correct| <= n * |correct|.
EstimatePoints(q, answer_text) ==
    IF answer_text = "" \/ ~IsNumber(answer_text) \/ ~IsNumber(q.correct_answer) THEN 0
    ELSE LET player_answer == NumberOf(answer_text)
             correct_val   == NumberOf(q.correct_answer)
             diff  == IF player_answer < correct_val THEN correct_val - player_answer
                      ELSE player_answer - correct_val
             whole == IF correct_val < 0 THEN 0 - correct_val ELSE correct_val
         IN IF correct_val = 0
            THEN (IF player_answer = 0 THEN q.points_exact ELSE 0)
            ELSE IF diff = 0 THEN q.points_exact
            ELSE IF 10 * diff <= whole THEN q.points_10
            ELSE IF 10 * diff <= 2 * whole THEN q.points_20
            ELSE IF 10 * diff <= 3 * whole THEN q.points_30
            ELSE 0

\* utils.calculate_points_for_answer: the 'text' and 'estimate' branches,
\* and 0 for a type the function does not know ('betting', 'ordering').
calculate_points_for_answer(q, answer_text) ==
    IF q.type = "text"
    THEN IF validate_text_answer(answer_text, q.validation) THEN q.points
         ELSE IF answer_text # "" /\ q.penalty_points # 0 THEN 0 - q.penalty_points
         ELSE 0
    ELSE IF q.type = "estimate"
    THEN EstimatePoints(q, answer_text)
    ELSE 0

\* ---------------------------------------------------------------- bets
\* The posted form v carries, besides answer_<q> = v for the free-text
\* questions, the two betting fields of player.py:377-378.
BetForm(v) ==
    CASE v = "a" -> [bet_amount |-> "2", bet_choice |-> "h1"]
      [] v = "b" -> [bet_amount |-> "9", bet_choice |-> "h2"]
      [] v = "c" -> [bet_amount |-> "x", bet_choice |-> "h3"]
      [] v = "d" -> [bet_amount |-> "0", bet_choice |-> "h1"]
      [] OTHER   -> [bet_amount |-> "1", bet_choice |-> ""]

\* int(bet_amount) of player.py:384 succeeds on decimal numerals
IsNumeral(s) == s \in {"0", "1", "2", "3", "9"}

IntOf(s) ==
    CASE s = "0" -> 0 [] s = "1" -> 1 [] s = "2" -> 2 [] s = "3" -> 3 [] s = "9" -> 9

Min2(a, b) == IF a < b THEN a ELSE b

Max2(a, b) == IF a > b THEN a ELSE b

\* (variant of ClampBet: no lower limit)
ClampBet_NoFloor(amount, max_bet) ==
    IF IsNumeral(amount) THEN Min2(IntOf(amount), max_bet) ELSE 1

\* player.py:383-387: the stake, clamped to 1..max_bet, 1 when unparsable
ClampBet(amount, max_bet) ==
    IF IsNumeral(amount) THEN Max2(1, Min2(IntOf(amount), max_bet)) ELSE 1

\* player.py:390-393  json.dumps({'bet_amount': ..., 'choice': ...})
json_dumps(bet) ==
    "{\"bet_amount\": " \o ToString(bet.bet_amount) \o ", \"choice\": \"" \o bet.choice \o "\"}"

\* the stake/choice objects whose JSON text the model can hold
BetObjects == [bet_amount : 0..3, choice : {"", "h1", "h2", "h3"}]

\* the JSON texts of the stake/choice objects
BetTexts == {json_dumps(o) : o \in BetObjects}

\* the object each of these texts parses to
ParsedBet == [text \in BetTexts |-> CHOOSE o \in BetObjects : json_dumps(o) = text]

\* api.py:1589  json.loads(answer.answer_text): a stake/choice object, another
\* JSON value (a number), or a JSONDecodeError
json_loads(text) ==
    IF text \in BetTexts
    THEN [kind |-> "object", bet_amount |-> ParsedBet[text].bet_amount,
          choice |-> ParsedBet[text].choice]
    ELSE IF text \in {"0", "1", "5"}
    THEN [kind |-> "number", bet_amount |-> 0, choice |-> ""]
    ELSE [kind |-> "invalid", bet_amount |-> 0, choice |-> ""]

\* ------------------------------------------------------------ orderings
\* The posted form v carries the fields ordering_<q>_<i> of player.py:408,
\* one for each slot; a missing field reads ''.
OrderForm(v) ==
    CASE v = "a" -> <<"A", "C", "B">>
      [] v = "b" -> <<"A", "A", "B">>
      [] v = "c" -> <<"C", "", "A">>
      [] v = "d" -> <<"B", "X", "A">>
      [] OTHER   -> <<"A", "B", "C">>

\* player.py:407-409: the items of the slots 0..len(correct_items)-1
PlayerOrder(q, v) == [k \in 1..Len(q.items) |-> OrderForm(v)[k]]

\* list.index(item): the first index of the item
IndexOf(seq, item) == CHOOSE k \in 1..Len(seq) : seq[k] = item /\ \A j \in 1..(k - 1) : seq[j] # item

Abs(n) == IF n < 0 THEN 0 - n ELSE n

\* player.py:415-424: the points of the ordering, slot by slot from slot k
RECURSIVE OrderingPoints(_, _, _)
OrderingPoints(q, player_order, k) ==
    IF k > Len(player_order) THEN 0
    ELSE LET player_item == player_order[k]
             here == IF player_item # "" /\ \E j \in 1..Len(q.items) : q.items[j] = player_item
                     THEN LET distance == Abs(k - IndexOf(q.items, player_item))
                          IN IF distance = 0 THEN q.points_exact
                             ELSE IF distance = 1 THEN q.points_adjacent
                             ELSE 0
                     ELSE 0
         IN here + OrderingPoints(q, player_order, k + 1)

\* player.py:412  json.dumps(player_order)
RECURSIVE JoinQuoted(_)
JoinQuoted(seq) ==
    IF seq = << >> THEN ""
    ELSE IF Len(seq) = 1 THEN "\"" \o seq[1] \o "\""
    ELSE "\"" \o seq[1] \o "\", " \o JoinQuoted(Tail(seq))

json_dumps_list(seq) == "[" \o JoinQuoted(seq) \o "]"

\* player.py:376-396, 399-424 and 464-469: the text stored for question q
\* from form v
SubmittedText(q, v) ==
    IF q.type = "betting"
    THEN json_dumps([bet_amount |-> ClampBet(BetForm(v).bet_amount, q.max_bet),
                     choice |-> BetForm(v).bet_choice])
    ELSE IF q.type = "ordering"
    THEN json_dumps_list(PlayerOrder(q, v))
    ELSE v

\* player.py:396, 415-424, 436-462 and 469: the points recorded at submission
SubmittedPoints(q, v) ==
    IF q.type = "betting"
    THEN 0 - ClampBet(BetForm(v).bet_amount, q.max_bet)
    ELSE IF q.type = "ordering"
    THEN OrderingPoints(q, PlayerOrder(q, v), 1)
    ELSE IF q.type = "estimate"
    THEN EstimatePoints(q, v)
    ELSE calculate_points_for_answer(q, v)

\* --------------------------------------------------------------- queries
\* Round.get_children() is non-empty
HasChildren(r) == \E c \in RoundIds : rounds[c].parent_id = r

\* Answer.query.filter_by(team_id=t, round_id=r).all()
TeamRoundAnswers(t, r) == {a \in answers : a.team_id = t /\ a.round_id = r}

\* ResubmitPermission.query.filter_by(team_id=t, round_id=r).first()
PermissionFor(t, r) == {p \in perms : p.team_id = t /\ p.round_id = r}

PermissionIdFor(t, r) ==
    IF PermissionFor(t, r) = {} THEN None
    ELSE (CHOOSE p \in PermissionFor(t, r) : TRUE).id

IdleReq ==
    [pc |-> "idle", team |-> None, round |-> None, text |-> "",
     questions |-> << >>, existing |-> {}, perm |-> None]

InFlight(i) == reqs[i].pc = "ready"

NoResponse == [result |-> "none", team |-> None, round |-> None, text |-> "", perm |-> None]

Response(result, req) ==
    [result |-> result, team |-> req.team, round |-> req.round, text |-> req.text,
     perm |-> req.perm]

\* models.py:64-67: a new Game is unfinished, not paused (pause_mode NULL),
\* with tab penalty tracking on
NoPause == "null"

NewGame == [is_finished |-> FALSE, pause_mode |-> NoPause, tab_penalty_enabled |-> TRUE]

\* models.py:150-152: a new Team has no custom scores, no away time and no
\* tab switches
NoScores == [c \in {} |-> 0]

NewTeam == [tab_away_seconds |-> 0, tab_switch_count |-> 0, custom_scores |-> NoScores]

NoJob == [pc |-> "idle", kind |-> "", round |-> None, question |-> "", results |-> << >>,
          questions |-> << >>, rows |-> {}, result |-> "none"]

\* ------------------------------------------------------------ broadcasts
\* the payload fields of an event that name a round, question, team or
\* answer (None or "" when the payload has no such field), and the handler
\* that emits it
Event(source, name, round_id, question_id, team_id, answer_id) ==
    [source |-> source, name |-> name, round_id |-> round_id,
     question_id |-> question_id, team_id |-> team_id, answer_id |-> answer_id]

\* the attempt to emit event e, which returns (ok) or raises
Attempt(e, ok) ==
    [source |-> e.source, name |-> e.name, round_id |-> e.round_id,
     question_id |-> e.question_id, team_id |-> e.team_id,
     answer_id |-> e.answer_id, ok |-> ok]

\* try: from app import socketio; socketio.emit(...) ... except Exception:
\* the logs the block can leave for the events es: nothing when Socket.IO is
\* not available, otherwise every emit in turn until one raises.
Broadcast(es) ==
    IF ~socket.available THEN {<< >>}
    ELSE {[k \in 1..n |-> Attempt(es[k], k < n \/ ok)] :
             n \in 1..Len(es), ok \in BOOLEAN} \cup
         (IF es = << >> THEN {<< >>} ELSE {})

\* the socket after a request that ran the broadcast block for es
Emitted(es) == {[socket EXCEPT !.log = l] : l \in Broadcast(es)}

\* (variant of BroadcastRaises: the exception of a failing emit leaves the
\* block)
BroadcastRaises_Propagates(log) == log # << >> /\ ~log[Len(log)].ok

\* api.py:82, player.py:509  except Exception: the exception of a failing
\* emit is caught inside the block
BroadcastRaises(log) == FALSE

NoSocket == [available |-> FALSE, log |-> << >>]

\* ------------------------------------------------------ overlapping calls
\* The requests of the API that can overlap each other.  A slot holds one
\* request: idle before it starts, "read" between its queries and its commit,
\* "done" after it has returned, with what it saw and what it answered.
Calls == {1, 2, 3}

IdleCall ==
    [pc |-> "idle", op |-> "", team |-> None, round |-> None, seen |-> 0, value |-> 0,
     result |-> "none"]

NoCalls == [c \in Calls |-> IdleCall]

\* ------------------------------------------------------------------ Init
\* A game with its team and one open top-level round holding two questions.
Init ==
    /\ game = NewGame
    /\ rounds = (1 :> [game_id |-> GameId, parent_id |-> None, order |-> 1,
                       is_open |-> TRUE, questions |-> <<"q1", "q2">>,
                       betting_results |-> << >>])
    /\ answers = {}
    /\ perms = {}
    /\ nextPermId = 1
    /\ reqs = [i \in Reqs |-> IdleReq]
    /\ last = NoResponse
    /\ teams = [t \in Teams |-> NewTeam]
    /\ job = NoJob
    /\ socket = NoSocket
    /\ calls = NoCalls

\* ---------------------------------------------------------- submit_round
\* player.py:343  team.game_id != game.id
WrongGame(t, r) == TeamGame[t] # rounds[r].game_id

\* (variant of RoundClosed: a grant on the round lifts the closed gate)
RoundClosed_UnlessGranted(r) ==
    ~rounds[r].is_open /\ \A p \in perms : p.round_id # r

\* player.py:348  not round_obj.is_open
RoundClosed(r) == ~rounds[r].is_open

\* (variant of AlreadySubmitted: the permission test inverted)
AlreadySubmitted_Inverted(existing, perm) == existing # {} /\ perm # None

\* player.py:359  existing_answers and not resubmit_permission
AlreadySubmitted(existing, perm) == existing # {} /\ perm = None

\* player.py:338-369: the reads and the three rejections.  An accepted
\* request keeps what it read (questions, ids of its existing answers, id
\* of the permission) for the commit.
submit_round_check(i, t, r, v) ==
    /\ ~InFlight(i)
    /\ \A j \in Reqs : j < i => InFlight(j)
    /\ r \in RoundIds
    /\ LET existing == {a.id : a \in TeamRoundAnswers(t, r)}
           perm     == PermissionIdFor(t, r)
           req      == [IdleReq EXCEPT !.team = t, !.round = r, !.text = v]
       IN IF WrongGame(t, r)
          THEN /\ last' = Response("rejected_game", req)
               /\ socket' \in Emitted(<< >>)
               /\ UNCHANGED reqs
          ELSE IF RoundClosed(r)
          THEN /\ last' = Response("rejected_closed", req)
               /\ socket' \in Emitted(<< >>)
               /\ UNCHANGED reqs
          ELSE IF AlreadySubmitted(existing, perm)
          THEN /\ last' = Response("rejected_submitted", req)
               /\ socket' \in Emitted(<< >>)
               /\ UNCHANGED reqs
          ELSE /\ reqs' = [reqs EXCEPT ![i] =
                      [req EXCEPT !.pc = "ready", !.questions = rounds[r].questions,
                                  !.existing = existing, !.perm = perm]]
               /\ UNCHANGED <<last, socket>>
    /\ UNCHANGED <<game, rounds, answers, perms, nextPermId, teams, job, calls>>

\* player.py:364  existing_by_question = {a.question_id: a for a in existing_answers}
\* With several rows for one question the dict keeps the last row of the
\* query result, whose order the query does not fix: any of them.
ReqQIds(req) == {req.questions[k] : k \in 1..Len(req.questions)}

ExistingByQuestion(req) ==
    {f \in [ReqQIds(req) -> {None} \cup req.existing] :
        \A q \in ReqQIds(req) :
            LET rows == {a \in answers : a.id \in req.existing /\ a.question_id = q}
            IN IF rows = {} THEN f[q] = None ELSE f[q] \in {a.id : a \in rows}}

\* (variant of WritesOf: an updated row starts again without bonus and
\* penalty)
WritesOf_Resetting(qs, req, ebq) ==
    LET upd  == {ebq[qs[k]] : k \in 1..Len(qs)} \ {None}
        ins  == SelectSeq(qs, LAMBDA q : ebq[q] = None)
        base == Cardinality(answers)
        updated  == {IF a.id \in upd
                     THEN [a EXCEPT !.answer_text =
                                        SubmittedText(Question(a.question_id), req.text),
                                    !.points =
                                        SubmittedPoints(Question(a.question_id), req.text),
                                    !.bonus_points = 0, !.penalty_points = 0]
                     ELSE a : a \in answers}
        inserted == {[id |-> base + k, team_id |-> req.team, round_id |-> req.round,
                      question_id |-> ins[k],
                      answer_text |-> SubmittedText(Question(ins[k]), req.text),
                      points |-> SubmittedPoints(Question(ins[k]), req.text),
                      bonus_points |-> 0, penalty_points |-> 0]
                     : k \in 1..Len(ins)}
    IN updated \cup inserted

\* player.py:371-487, the loop body over the questions qs: one Answer per
\* question, updated in place when the request read a row for that
\* question, inserted otherwise.
WritesOf(qs, req, ebq) ==
    LET upd  == {ebq[qs[k]] : k \in 1..Len(qs)} \ {None}
        ins  == SelectSeq(qs, LAMBDA q : ebq[q] = None)
        base == Cardinality(answers)
        updated  == {IF a.id \in upd
                     THEN [a EXCEPT !.answer_text =
                                        SubmittedText(Question(a.question_id), req.text),
                                    !.points =
                                        SubmittedPoints(Question(a.question_id), req.text)]
                     ELSE a : a \in answers}
        inserted == {[id |-> base + k, team_id |-> req.team, round_id |-> req.round,
                      question_id |-> ins[k],
                      answer_text |-> SubmittedText(Question(ins[k]), req.text),
                      points |-> SubmittedPoints(Question(ins[k]), req.text),
                      bonus_points |-> 0, penalty_points |-> 0]
                     : k \in 1..Len(ins)}
    IN updated \cup inserted

\* (variant of SubmitWrites: the loop stops after the first question)
SubmitWrites_FirstOnly(req, ebq) ==
    WritesOf(IF req.questions = << >> THEN << >> ELSE <<Head(req.questions)>>, req, ebq)

\* player.py:371-487: the loop runs over every question the round had when
\* the request read it.
SubmitWrites(req, ebq) == WritesOf(req.questions, req, ebq)

\* (variant of DeletePermission: the permission is kept)
DeletePermission_Skip(ps, pid) == ps

\* player.py:491-492  db.session.delete(resubmit_permission); DELETE by
\* primary key, a row that is already gone deletes nothing.
DeletePermission(ps, pid) == {p \in ps : p.id # pid}

\* player.py:489-494: the commit of all writes of the request.
submit_round_commit(i) ==
    /\ reqs[i].pc = "ready"
    /\ \E ebq \in ExistingByQuestion(reqs[i]) :
          /\ Cardinality(SubmitWrites(reqs[i], ebq)) <= MaxAnswers
          /\ answers' = SubmitWrites(reqs[i], ebq)
    /\ perms' = DeletePermission(perms, reqs[i].perm)
    /\ reqs' = [reqs EXCEPT ![i] = IdleReq]
    /\ socket' \in Emitted(<<Event("submit_round", "submission_update",
                                    reqs[i].round, "", None, None)>>)
    /\ last' = Response(IF BroadcastRaises(socket'.log) THEN "failed" ELSE "accepted",
                        reqs[i])
    /\ UNCHANGED <<game, rounds, nextPermId, teams, job, calls>>

\* player.py:512-515: the commit raises, the session is rolled back.
submit_round_rollback(i) ==
    /\ reqs[i].pc = "ready"
    /\ reqs' = [reqs EXCEPT ![i] = IdleReq]
    /\ last' = Response("failed", reqs[i])
    /\ socket' \in Emitted(<< >>)
    /\ UNCHANGED <<game, rounds, answers, perms, nextPermId, teams, job, calls>>

\* ------------------------------------------------------- admin endpoints
\* api.py:65-70
toggle_round(r) ==
    /\ r \in RoundIds
    /\ rounds' = [rounds EXCEPT ![r].is_open = ~rounds[r].is_open]
    /\ socket' \in Emitted(<<Event("toggle_round", "round_status_changed", r, "", None, None)>>)
    /\ UNCHANGED <<game, answers, perms, nextPermId, reqs, last, teams, job, calls>>

\* api.py:49-58
update_questions(r, qs) ==
    /\ r \in RoundIds
    /\ rounds' = [rounds EXCEPT ![r].questions = qs, ![r].betting_results = << >>]
    /\ socket' \in Emitted(<< >>)
    /\ UNCHANGED <<game, answers, perms, nextPermId, reqs, last, teams, job, calls>>

\* admin.py:145-173: a new round, top-level (parent None) or under a parent
\* of the same game, ordered after its siblings, open, without questions.
MaxOf(S) == IF S = {} THEN 0 ELSE CHOOSE m \in S : \A x \in S : x <= m

create_round(parent_id) ==
    /\ Cardinality(RoundIds) < MaxRounds
    /\ parent_id = None \/ parent_id \in RoundIds
    /\ LET parent == IF parent_id # None /\ rounds[parent_id].game_id # GameId
                     THEN None ELSE parent_id
           sibs   == IF parent # None
                     THEN {c \in RoundIds : rounds[c].parent_id = parent}
                     ELSE {c \in RoundIds : rounds[c].game_id = GameId
                                            /\ rounds[c].parent_id = None}
           max_order == MaxOf({rounds[c].order : c \in sibs})
           id == Cardinality(RoundIds) + 1
       IN rounds' = rounds @@ (id :> [game_id |-> GameId, parent_id |-> parent,
                                      order |-> max_order + 1, is_open |-> TRUE,
                                      questions |-> << >>,
                                      betting_results |-> << >>])
    /\ socket' \in Emitted(<< >>)
    /\ UNCHANGED <<game, answers, perms, nextPermId, reqs, last, teams, job, calls>>

\* api.py:127-135, one item {id, order[, parent_id]} of the order list
reorder_rounds(id, order, has_parent, parent_id) ==
    /\ id \in RoundIds
    /\ rounds[id].game_id = GameId
    /\ parent_id = None \/ (parent_id \in RoundIds /\ parent_id # id)
    /\ rounds' = [rounds EXCEPT ![id].order = order,
                                ![id].parent_id = IF has_parent THEN parent_id ELSE @]
    /\ socket' \in Emitted(<<Event("reorder_rounds", "rounds_reordered", None, "", None, None)>>)
    /\ UNCHANGED <<game, answers, perms, nextPermId, reqs, last, teams, job, calls>>

\* api.py:367-413
create_answer(t, r, qid, text) ==
    /\ r \in RoundIds
    /\ LET existing == {a \in answers : a.team_id = t /\ a.round_id = r
                                        /\ a.question_id = qid}
           known    == \E k \in 1..Len(rounds[r].questions) : rounds[r].questions[k] = qid
           pts      == calculate_points_for_answer(Question(qid), text)
       IN IF existing # {}
          THEN \E e \in existing :
                 /\ answers' = (answers \ {e}) \cup
                       {[e EXCEPT !.answer_text = text,
                                  !.points = IF known THEN pts ELSE @]}
                 /\ socket' \in Emitted(<<Event("create_answer", "score_updated",
                                                 None, "", None, e.id)>>)
          ELSE /\ Cardinality(answers) < MaxAnswers
               /\ answers' = answers \cup
                     {[id |-> Cardinality(answers) + 1, team_id |-> t, round_id |-> r,
                       question_id |-> qid, answer_text |-> text,
                       points |-> IF known THEN pts ELSE 0,
                       bonus_points |-> 0, penalty_points |-> 0]}
               /\ socket' \in Emitted(<<Event("create_answer", "score_updated",
                                               None, "", None, Cardinality(answers) + 1)>>)
    /\ UNCHANGED <<game, rounds, perms, nextPermId, reqs, last, teams, job, calls>>

\* (variant of clear_team_submission: the grant deletes the team's answers
\* of the round)
clear_team_submission_Deleting(r, t) ==
    /\ r \in RoundIds
    /\ IF TeamGame[t] # rounds[r].game_id \/ PermissionFor(t, r) # {}
       THEN UNCHANGED <<perms, nextPermId, answers>>
       ELSE /\ nextPermId <= MaxPermId
            /\ perms' = perms \cup {[id |-> nextPermId, team_id |-> t, round_id |-> r]}
            /\ nextPermId' = nextPermId + 1
            /\ answers' = answers \ TeamRoundAnswers(t, r)
    /\ socket' \in Emitted(IF TeamGame[t] # rounds[r].game_id THEN << >>
                           ELSE <<Event("clear_team_submission", "submission_cleared",
                                        r, "", t, None)>>)
    /\ UNCHANGED <<game, rounds, reqs, last, teams, job, calls>>

\* api.py:798-820
clear_team_submission(r, t) ==
    /\ r \in RoundIds
    /\ IF TeamGame[t] # rounds[r].game_id \/ PermissionFor(t, r) # {}
       THEN UNCHANGED <<perms, nextPermId>>
       ELSE /\ nextPermId <= MaxPermId
            /\ perms' = perms \cup {[id |-> nextPermId, team_id |-> t, round_id |-> r]}
            /\ nextPermId' = nextPermId + 1
    /\ socket' \in Emitted(IF TeamGame[t] # rounds[r].game_id THEN << >>
                           ELSE <<Event("clear_team_submission", "submission_cleared",
                                        r, "", t, None)>>)
    /\ UNCHANGED <<game, rounds, answers, reqs, last, teams, job, calls>>

\* api.py:1440-1444
finish_game ==
    /\ game' = [game EXCEPT !.is_finished = TRUE]
    /\ socket' \in Emitted(<<Event("finish_game", "game_finished", None, "", None, None)>>)
    /\ UNCHANGED <<rounds, answers, perms, nextPermId, reqs, last, teams, job, calls>>

\* api.py:1463-1467
unfinish_game ==
    /\ game' = [game EXCEPT !.is_finished = FALSE]
    /\ socket' \in Emitted(<<Event("unfinish_game", "game_unfinished", None, "", None, None)>>)
    /\ UNCHANGED <<rounds, answers, perms, nextPermId, reqs, last, teams, job, calls>>

\* ---------------------------------------------------- betting settlement
\* api.py:1598-1611: the points of a bet for the finish order results
BetPoints(bet, multipliers, results) ==
    IF \E k \in 1..Len(results) : results[k] = bet.choice
    THEN LET place == CHOOSE k \in 1..Len(results) :
                          /\ results[k] = bet.choice
                          /\ \A j \in 1..(k - 1) : results[j] # bet.choice
         IN IF place <= Len(multipliers)
            THEN Max2(0, bet.bet_amount * multipliers[place] - bet.bet_amount)
            ELSE 0 - bet.bet_amount
    ELSE 0 - bet.bet_amount

\* api.py:1588-1617: the points the loop assigns to one row; a text that is
\* not JSON raises JSONDecodeError and the row keeps its points
SettledPoints(row, q, results) ==
    IF json_loads(row.answer_text).kind = "object"
    THEN BetPoints(json_loads(row.answer_text), q.multipliers, results)
    ELSE row.points

\* api.py:1590  bet_data.get(...) on a JSON value that is not an object raises
\* AttributeError, which the except clause of api.py:1615 does not catch
SettleRaises(rows) == \E a \in rows : json_loads(a.answer_text).kind = "number"

\* (variant of SettleWrites: only rows that still hold the points recorded
\* at submission are settled)
SettleWrites_ProvisionalOnly(ans, rows, q, results) ==
    {IF \E row \in rows : /\ row.id = a.id
                          /\ json_loads(row.answer_text).kind = "object"
                          /\ row.points = 0 - json_loads(row.answer_text).bet_amount
     THEN [a EXCEPT !.points = SettledPoints(CHOOSE row \in rows : row.id = a.id, q, results)]
     ELSE a : a \in ans}

\* api.py:1613 and 1619: the UPDATEs of the commit, one per row the request
\* read whose points attribute changed, by primary key
SettleWrites(ans, rows, q, results) ==
    {IF \E row \in rows : row.id = a.id /\ SettledPoints(row, q, results) # row.points
     THEN [a EXCEPT !.points = SettledPoints(CHOOSE row \in rows : row.id = a.id, q, results)]
     ELSE a : a \in ans}

\* a set of rows as a sequence by ascending id
RECURSIVE RowsById(_)
RowsById(rows) ==
    IF rows = {} THEN << >>
    ELSE LET m == CHOOSE a \in rows : \A b \in rows : a.id <= b.id
         IN <<m>> \o RowsById(rows \ {m})

\* api.py:1621-1642: betting_results_set, score_updated, and one
\* answer_score_updated for each answer of the question as re-read after the
\* commit (taken by ascending id)
SettleEvents(ans, r, qid) ==
    LET rows == RowsById({a \in ans : a.round_id = r /\ a.question_id = qid})
    IN <<Event("set_betting_results", "betting_results_set", r, qid, None, None),
         Event("set_betting_results", "score_updated", r, "", None, None)>> \o
       [k \in 1..Len(rows) |->
           Event("set_betting_results", "answer_score_updated", r, qid, rows[k].team_id, None)]

\* api.py:1558-1585: the reads of set_betting_results
set_betting_results_read(r, qid, results) ==
    /\ job.pc = "idle"
    /\ r \in RoundIds
    /\ IF (\A k \in 1..Len(rounds[r].questions) : rounds[r].questions[k] # qid)
          \/ Question(qid).type # "betting"
       THEN /\ job' = [NoJob EXCEPT !.result = "rejected"]
            /\ socket' \in Emitted(<< >>)
       ELSE /\ job' = [pc |-> "ready", kind |-> "betting", round |-> r, question |-> qid,
                       results |-> results, questions |-> rounds[r].questions,
                       rows |-> {a \in answers : a.round_id = r /\ a.question_id = qid},
                       result |-> "none"]
            /\ UNCHANGED socket
    /\ UNCHANGED <<game, rounds, answers, perms, nextPermId, reqs, last, teams, calls>>

\* api.py:1580-1619: the loop and the commit of set_betting_results; an
\* uncaught exception ends the request without a commit
set_betting_results_commit ==
    /\ job.pc = "ready"
    /\ job.kind = "betting"
    /\ IF SettleRaises(job.rows)
       THEN /\ job' = [NoJob EXCEPT !.result = "error"]
            /\ socket' \in Emitted(<< >>)
            /\ UNCHANGED <<rounds, answers>>
       ELSE /\ answers' = SettleWrites(answers, job.rows, Question(job.question), job.results)
            /\ rounds' = [rounds EXCEPT ![job.round].questions = job.questions,
                                        ![job.round].betting_results = job.results]
            /\ socket' \in Emitted(SettleEvents(answers', job.round, job.question))
            /\ job' = [NoJob EXCEPT !.result =
                           IF BroadcastRaises(socket'.log) THEN "error" ELSE "ok"]
    /\ UNCHANGED <<game, perms, nextPermId, reqs, last, teams, calls>>

\* set_betting_results run from its reads to its commit with nothing in
\* between, on the Answer table ans
Settled(ans, r, qid, results) ==
    LET rows == {a \in ans : a.round_id = r /\ a.question_id = qid}
    IN IF SettleRaises(rows) THEN ans
       ELSE SettleWrites(ans, rows, Question(qid), results)

\* api.py:320-341
update_answer_text(id, text) ==
    /\ \E a \in answers :
          /\ a.id = id
          /\ LET known == \E k \in 1..Len(rounds[a.round_id].questions) :
                              rounds[a.round_id].questions[k] = a.question_id
             IN answers' = (answers \ {a}) \cup
                    {[a EXCEPT !.answer_text = text,
                               !.points = IF known
                                          THEN calculate_points_for_answer(
                                                   Question(a.question_id), text)
                                          ELSE @]}
    /\ socket' \in Emitted(LET a == CHOOSE x \in answers : x.id = id
                           IN <<Event("update_answer_text", "score_updated", None, "", None, id),
                                Event("update_answer_text", "answer_score_updated",
                                      a.round_id, a.question_id, a.team_id, None)>>)
    /\ UNCHANGED <<game, rounds, perms, nextPermId, reqs, last, teams, job, calls>>

\* api.py:151-183  update_question with a body of the keys in keys; the
\* values it carries are the ones the question has, so that the
\* configuration is the same after the edit.  The answers of the question
\* are re-scored when the body has 'validation' or 'correct_answer'; no
\* event is emitted.
update_question(r, qid, keys) ==
    /\ r \in RoundIds
    /\ LET found == \E k \in 1..Len(rounds[r].questions) : rounds[r].questions[k] = qid
       IN IF found /\ keys \cap {"validation", "correct_answer"} # {}
          THEN answers' =
                   {IF a.round_id = r /\ a.question_id = qid
                    THEN [a EXCEPT !.points =
                             calculate_points_for_answer(Question(qid), a.answer_text)]
                    ELSE a : a \in answers}
          ELSE UNCHANGED answers
    /\ socket' \in Emitted(<< >>)
    /\ UNCHANGED <<game, rounds, perms, nextPermId, reqs, last, teams, job, calls>>

\* ------------------------------------------------------- scores, totals
\* api.py:433-451, data holding the keys in keys, each with the value v
update_answer_score(id, keys, v) ==
    /\ \E a \in answers :
          /\ a.id = id
          /\ answers' = (answers \ {a}) \cup
                {[a EXCEPT !.points = IF "points" \in keys THEN v ELSE @,
                           !.bonus_points = IF "bonus_points" \in keys THEN v ELSE @,
                           !.penalty_points = IF "penalty_points" \in keys THEN v ELSE @]}
    /\ socket' \in Emitted(LET a == CHOOSE x \in answers : x.id = id
                           IN <<Event("update_answer_score", "score_updated", None, "", None, id),
                                Event("update_answer_score", "answer_score_updated",
                                      a.round_id, a.question_id, a.team_id, None)>>)
    /\ UNCHANGED <<game, rounds, perms, nextPermId, reqs, last, teams, job, calls>>

\* api.py:699-711
update_custom_score(t, column_id, value) ==
    /\ LET scores == teams[t].custom_scores
       IN teams' = [teams EXCEPT ![t].custom_scores =
                       [c \in DOMAIN scores \cup {column_id} |->
                           IF c = column_id THEN value ELSE scores[c]]]
    /\ socket' \in Emitted(<<Event("update_custom_score", "score_updated", None, "", t, None)>>)
    /\ UNCHANGED <<game, rounds, answers, perms, nextPermId, reqs, last, job, calls>>

\* api.py:1212-1227
set_tab_away_seconds(t, seconds) ==
    /\ teams' = [teams EXCEPT ![t].tab_away_seconds = IF seconds < 0 THEN 0 ELSE seconds]
    /\ socket' \in Emitted(<<Event("set_tab_away_seconds", "tab_penalty_updated", None, "", t, None),
                           Event("set_tab_away_seconds", "tab_penalty_tracking_changed",
                                 None, "", None, None)>>)
    /\ UNCHANGED <<game, rounds, answers, perms, nextPermId, reqs, last, job, calls>>

\* api.py:1019-1072  tick_away_time: one second more while tracking is
\* enabled, the game is not paused and a round of the game is open
tick_away_time(t) ==
    /\ IF /\ game.tab_penalty_enabled
          /\ game.pause_mode = NoPause
          /\ \E r \in RoundIds : rounds[r].game_id = TeamGame[t] /\ rounds[r].is_open
       THEN /\ teams[t].tab_away_seconds < MaxAway
            /\ teams' = [teams EXCEPT ![t].tab_away_seconds = @ + 1]
            /\ socket' \in Emitted(<<Event("tick_away_time", "tab_time_updated",
                                            None, "", t, None),
                                      Event("tick_away_time", "tab_time_updated",
                                            None, "", t, None)>>)
       ELSE /\ UNCHANGED teams
            /\ socket' \in Emitted(<< >>)
    /\ UNCHANGED <<game, rounds, answers, perms, nextPermId, reqs, last, job, calls>>

\* SQL sum(column) over a set of Answer rows, 0 for no rows (coalesce)
RECURSIVE SumColumn(_, _)
SumColumn(rows, column) ==
    IF rows = {} THEN 0
    ELSE LET a == CHOOSE x \in rows : TRUE
         IN a[column] + SumColumn(rows \ {a}, column)

\* sum(custom_scores.values())
RECURSIVE SumValues(_, _)
SumValues(scores, cols) ==
    IF cols = {} THEN 0
    ELSE LET c == CHOOSE x \in cols : TRUE
         IN scores[c] + SumValues(scores, cols \ {c})

\* models.py:188-191  (self.tab_away_seconds or 0) // 10
tab_penalty_points(t) == teams[t].tab_away_seconds \div 10

\* (variant of total_points: the penalty points are added)
total_points_PenaltyAdded(t) ==
    LET mine == {a \in answers : a.team_id = t}
    IN SumColumn(mine, "points") + SumColumn(mine, "bonus_points")
         + SumColumn(mine, "penalty_points")
         + SumValues(teams[t].custom_scores, DOMAIN teams[t].custom_scores)
         - tab_penalty_points(t)

\* api.py:555-574: the total_points get_leaderboard reports for team t
total_points(t) ==
    LET mine == {a \in answers : a.team_id = t}
    IN SumColumn(mine, "points") + SumColumn(mine, "bonus_points")
         - SumColumn(mine, "penalty_points")
         + SumValues(teams[t].custom_scores, DOMAIN teams[t].custom_scores)
         - tab_penalty_points(t)

\* api.py:1380-1393  the Game row set_game_pause commits for a valid
\* pause_mode: pausing a running game turns tab penalty tracking off,
\* resuming a paused one turns it on
Paused(g, pause_mode) ==
    LET was_paused     == g.pause_mode # NoPause
        will_be_paused == pause_mode # NoPause
    IN [g EXCEPT !.pause_mode = pause_mode,
                 !.tab_penalty_enabled =
                     IF will_be_paused /\ ~was_paused THEN FALSE
                     ELSE IF ~will_be_paused /\ was_paused THEN TRUE
                     ELSE @]

\* ------------------------------------------------------------ navigation
\* api.py:1363-1395; a pause_mode outside the three values is answered 400
set_game_pause(pause_mode) ==
    /\ IF pause_mode \notin {NoPause, "starting", "halftime"}
       THEN UNCHANGED game
       ELSE game' = Paused(game, pause_mode)
    /\ socket' \in Emitted(IF pause_mode \notin {NoPause, "starting", "halftime"} THEN << >>
                           ELSE <<Event("set_game_pause", "game_pause_changed",
                                        None, "", None, None),
                                  Event("set_game_pause", "game_pause_changed",
                                        None, "", None, None)>>)
    /\ UNCHANGED <<rounds, answers, perms, nextPermId, reqs, last, teams, job, calls>>

\* Round.query.filter_by(game_id=game.id)
GameRounds == {r \in RoundIds : rounds[r].game_id = GameId}

\* player.py:136-139  order_by(Round.parent_id.isnot(None), Round.order):
\* round a is sorted strictly before round b
SortsBefore(a, b) ==
    \/ rounds[a].parent_id = None /\ rounds[b].parent_id # None
    \/ /\ (rounds[a].parent_id = None) = (rounds[b].parent_id = None)
       /\ rounds[a].order < rounds[b].order

\* player.py:154-164: the loop stops at round r for team t
StopsAt(t, r) ==
    /\ ~HasChildren(r)
    /\ rounds[r].is_open
    /\ TeamRoundAnswers(t, r) = {} \/ \E p \in perms : p.team_id = t /\ p.round_id = r

\* player.py:141-145  submitted_round_ids
SubmittedRounds(t) == {r \in GameRounds : TeamRoundAnswers(t, r) # {}}

\* player.py:166-174: game over or waiting
GameOverPage(t) ==
    LET all_closed    == \A r \in GameRounds : ~rounds[r].is_open
        all_submitted == Cardinality(SubmittedRounds(t)) >= Cardinality(GameRounds)
    IN IF all_closed /\ all_submitted /\ Cardinality(GameRounds) > 0
       THEN "game_over" ELSE "waiting"

\* (variant of next_questions: containers are not skipped)
next_questions_NoSkip(t) ==
    IF TeamGame[t] # GameId THEN {[page |-> "login", round |-> None]}
    ELSE IF game.pause_mode # NoPause THEN {[page |-> "paused", round |-> None]}
    ELSE LET stops == {r \in GameRounds :
                          /\ rounds[r].is_open
                          /\ TeamRoundAnswers(t, r) = {}
                               \/ \E p \in perms : p.team_id = t /\ p.round_id = r}
             first == {r \in stops : \A x \in stops : ~SortsBefore(x, r)}
         IN IF first # {} THEN {[page |-> "round", round |-> r] : r \in first}
            ELSE {[page |-> GameOverPage(t), round |-> None]}

\* player.py:110-174: the responses next_questions can give team t; rounds
\* with equal sort keys come in no fixed sequence, so each of the first
\* rounds the loop can stop at is a possible destination
next_questions(t) ==
    IF TeamGame[t] # GameId THEN {[page |-> "login", round |-> None]}
    ELSE IF game.pause_mode # NoPause THEN {[page |-> "paused", round |-> None]}
    ELSE LET stops == {r \in GameRounds : StopsAt(t, r)}
             first == {r \in stops : \A x \in stops : ~SortsBefore(x, r)}
         IN IF first # {} THEN {[page |-> "round", round |-> r] : r \in first}
            ELSE {[page |-> GameOverPage(t), round |-> None]}

\* player.py:517-540: where submit_round sends team t after its accepted
\* submission of round r: a sibling round, or None for the rounds menu.  The
\* query takes the first open sibling of higher order; siblings of equal
\* order come in no fixed sequence.
sibling_redirect(t, r) ==
    IF rounds[r].parent_id # None
    THEN LET open  == {x \in RoundIds : /\ rounds[x].parent_id = rounds[r].parent_id
                                        /\ rounds[x].order > rounds[r].order
                                        /\ rounds[x].is_open}
             first == {x \in open : \A y \in open : rounds[x].order <= rounds[y].order}
         IN IF first = {} THEN {None}
            ELSE {IF TeamRoundAnswers(t, x) = {} THEN x ELSE None : x \in first}
    ELSE {None}

\* ------------------------------------------------------ visibility gate
\* rounds of the game without children
LeafRounds == {r \in RoundIds : rounds[r].game_id = GameId /\ ~HasChildren(r)}

\* (variant of FinalRounds: the leaf of the lowest order is taken)
FinalRounds_LowestOrder ==
    LET top == {r \in LeafRounds : \A x \in LeafRounds : rounds[r].order <= rounds[x].order}
    IN IF top = {} THEN {None} ELSE top

\* api.py:519-528 / player.py:41-50: the first leaf in descending order of
\* Round.order.  Rounds of equal order come in no fixed sequence, so every
\* leaf of the highest order can be the one found; None when no leaf exists.
FinalRounds ==
    LET top == {r \in LeafRounds : \A x \in LeafRounds : rounds[x].order <= rounds[r].order}
    IN IF top = {} THEN {None} ELSE top

\* (variant of get_leaderboard: the is_finished test is missing)
get_leaderboard_NoFinishTest(team, final_round) ==
    IF team # None
    THEN IF final_round # None THEN TeamRoundAnswers(team, final_round) # {} ELSE FALSE
    ELSE FALSE

\* api.py:511-542: scores_hidden of get_leaderboard for the requesting team
\* (None: no team_id parameter), final_round being the final round found
get_leaderboard(team, final_round) ==
    IF game.is_finished THEN FALSE
    ELSE IF team # None
    THEN IF final_round # None THEN TeamRoundAnswers(team, final_round) # {} ELSE FALSE
    ELSE FALSE

\* player.py:32-64: whether scoreboard renders scores_hidden.html for the
\* logged-in team (None: anonymous or admin)
scoreboard(team, final_round) ==
    IF game.is_finished THEN FALSE
    ELSE IF team # None
    THEN /\ final_round # None
         /\ ~rounds[final_round].is_open
         /\ TeamRoundAnswers(team, final_round) # {}
    ELSE FALSE

\* ------------------------------------------------------------ dedup pass
\* (variant of AnswerByQid: the rows of the team in every round)
AnswerByQid_AnyRound(ans, team_id, round_id) ==
    LET rows == {a \in ans : a.team_id = team_id}
        qids == {a.question_id : a \in rows}
    IN {f \in [qids -> {a.id : a \in rows}] :
           \A q \in qids : \E a \in rows : a.id = f[q] /\ a.question_id = q}

\* utils.py:329-330  the rows of (team, round) and the dict by question id.
\* With several rows for one question the dict keeps the last row of the
\* query result, whose order the query does not fix: any of them.
AnswerByQid(ans, team_id, round_id) ==
    LET rows == {a \in ans : a.team_id = team_id /\ a.round_id = round_id}
        qids == {a.question_id : a \in rows}
    IN {f \in [qids -> {a.id : a \in rows}] :
           \A q \in qids : \E a \in rows : a.id = f[q] /\ a.question_id = q}

\* utils.py:332-344  the loop over the question list: an answer of a 'text'
\* question that has a text and positive points is set to 0 when its
\* normalized text was seen at an earlier question, and is remembered
\* otherwise.  The points are read from the row as the loop left it.
RECURSIVE DedupLoop(_, _, _, _)
DedupLoop(qs, by_qid, seen_texts, ans) ==
    IF qs = << >> THEN ans
    ELSE LET q_id == Head(qs)
             rest == Tail(qs)
         IN IF Question(q_id).type # "text" \/ q_id \notin DOMAIN by_qid
            THEN DedupLoop(rest, by_qid, seen_texts, ans)
            ELSE LET answer == CHOOSE a \in ans : a.id = by_qid[q_id]
                 IN IF answer.answer_text = "" \/ answer.points <= 0
                    THEN DedupLoop(rest, by_qid, seen_texts, ans)
                    ELSE IF Normalize(answer.answer_text) \in seen_texts
                    THEN DedupLoop(rest, by_qid, seen_texts,
                                   (ans \ {answer}) \cup {[answer EXCEPT !.points = 0]})
                    ELSE DedupLoop(rest, by_qid,
                                   seen_texts \cup {Normalize(answer.answer_text)}, ans)

\* the Answer tables one call of apply_round_deduplication can leave
DedupOutcomes(ans, team_id, round_id, questions) ==
    {DedupLoop(questions, f, {}, ans) : f \in AnswerByQid(ans, team_id, round_id)}

\* utils.py:316-344  apply_round_deduplication(team_id, round_id, questions,
\* Answer); the call is noted in job with the rows it read.
apply_round_deduplication(team_id, round_id, questions) ==
    /\ answers' \in DedupOutcomes(answers, team_id, round_id, questions)
    /\ job' = [NoJob EXCEPT !.kind = "dedup", !.round = round_id,
                            !.questions = questions,
                            !.rows = {a \in answers : a.team_id = team_id
                                                      /\ a.round_id = round_id}]
    /\ UNCHANGED socket
    /\ UNCHANGED <<game, rounds, perms, nextPermId, reqs, last, teams, calls>>

\* -------------------------------------------------------------- ranking
\* Team.query.filter_by(game_id=game.id): the Team rows of the game
TeamsOfGame == {t \in DOMAIN teams : TeamGame[t] = GameId}

\* the orders in which a query can return the rows of a set
Orders(S) == {f \in [1..Cardinality(S) -> S] : \A x \in S : \E k \in DOMAIN f : f[k] = x}

\* (variant of list_sort: ascending)
list_sort_Ascending(seq, keys) ==
    LET n == Len(seq)
        place(k) == 1 + Cardinality({j \in 1..n : keys[j] < keys[k]})
                      + Cardinality({j \in 1..(k - 1) : keys[j] = keys[k]})
    IN [p \in 1..n |-> seq[CHOOSE k \in 1..n : place(k) = p]]

\* list.sort(key=..., reverse=True): descending by key, rows of equal key in
\* the order they had (the sort is stable); keys[k] is the key of seq[k]
list_sort(seq, keys) ==
    LET n == Len(seq)
        place(k) == 1 + Cardinality({j \in 1..n : keys[j] > keys[k]})
                      + Cardinality({j \in 1..(k - 1) : keys[j] = keys[k]})
    IN [p \in 1..n |-> seq[CHOOSE k \in 1..n : place(k) = p]]

\* api.py:199-205: the rounds of the spreadsheet, the top-level rounds of the
\* game and their children
SheetRounds ==
    LET top == {r \in RoundIds : rounds[r].game_id = GameId /\ rounds[r].parent_id = None}
    IN top \cup {r \in RoundIds : rounds[r].parent_id \in top}

\* api.py:265-290: points + bonus - penalty of the answer each cell (round,
\* index of the question) shows, .first() of the rows of (team, round,
\* question): any of them when there are several, 0 when there is none
RECURSIVE SumCells(_, _)
SumCells(t, cells) ==
    IF cells = {} THEN {0}
    ELSE LET c    == CHOOSE x \in cells : TRUE
             rows == {a \in answers : /\ a.team_id = t /\ a.round_id = c[1]
                                      /\ a.question_id = rounds[c[1]].questions[c[2]]}
             vals == IF rows = {} THEN {0}
                     ELSE {a.points + a.bonus_points - a.penalty_points : a \in rows}
         IN {v + rest : v \in vals, rest \in SumCells(t, cells \ {c})}

\* api.py:296  total_score of the row of team t
total_score(t) ==
    {s + SumValues(teams[t].custom_scores, DOMAIN teams[t].custom_scores)
       - tab_penalty_points(t) :
     s \in SumCells(t, {<<r, k>> \in SheetRounds \X (1..3) : k <= Len(rounds[r].questions)})}

\* api.py:207, 237-308  get_game_answers: the rows of the teams as ordered by
\* name, sorted by total_score and numbered (the names are not modelled: any
\* order)
get_game_answers ==
    {LET sorted == list_sort([k \in 1..Len(by_name) |->
                                 [team_id |-> by_name[k], total_score |-> tot[by_name[k]],
                                  position |-> k]],
                             [k \in 1..Len(by_name) |-> tot[by_name[k]]])
     IN [k \in 1..Len(sorted) |-> [sorted[k] EXCEPT !.position = k]] :
     by_name \in Orders(TeamsOfGame),
     tot \in {f \in [TeamsOfGame -> UNION {total_score(t) : t \in TeamsOfGame}] :
                 \A t \in TeamsOfGame : f[t] \in total_score(t)}}

\* api.py:505, 543-583  the leaderboard list get_leaderboard returns to the
\* requesting team: empty when the scores are hidden, otherwise one entry
\* for each team the query returned (in any order), sorted by total_points
leaderboard(team, final_round) ==
    IF get_leaderboard(team, final_round) THEN {<< >>}
    ELSE {list_sort([k \in 1..Len(queried) |->
                        [team_name |-> queried[k], total_points |-> total_points(queried[k])]],
                    [k \in 1..Len(queried) |-> total_points(queried[k])]) :
          queried \in Orders(TeamsOfGame)}

\* ------------------------------------------------- overlapping grants
\* (variant of UniqueViolation: the table has no unique constraint)
UniqueViolation_Unchecked(t, r) == FALSE

\* models.py:241-243  UniqueConstraint('team_id', 'round_id'): the INSERT of
\* a second permission of the pair fails
UniqueViolation(t, r) == PermissionFor(t, r) # {}

\* api.py:800-813  clear_team_submission up to its query for the existing
\* permission: a team of another game is answered 400 at once
clear_team_submission_read(c, r, t) ==
    /\ calls[c].pc = "idle"
    /\ r \in RoundIds
    /\ calls' = [calls EXCEPT ![c] =
           IF TeamGame[t] # rounds[r].game_id
           THEN [IdleCall EXCEPT !.pc = "done", !.op = "grant", !.team = t, !.round = r,
                                 !.result = "rejected_game"]
           ELSE [IdleCall EXCEPT !.pc = "read", !.op = "grant", !.team = t, !.round = r,
                                 !.seen = Cardinality(PermissionFor(t, r))]]
    /\ IF TeamGame[t] # rounds[r].game_id
       THEN socket' \in Emitted(<< >>)
       ELSE UNCHANGED socket
    /\ UNCHANGED <<game, rounds, answers, perms, nextPermId, reqs, last, teams, job>>

\* api.py:814-835  the rest of clear_team_submission: the INSERT and commit
\* when no permission was seen (an IntegrityError when another request has
\* committed one meanwhile; the id drawn from the sequence is spent), then
\* the emit
clear_team_submission_commit(c) ==
    /\ calls[c].pc = "read" /\ calls[c].op = "grant"
    /\ LET t == calls[c].team
           r == calls[c].round
       IN IF calls[c].seen > 0
          THEN /\ UNCHANGED <<perms, nextPermId>>
               /\ socket' \in Emitted(<<Event("clear_team_submission", "submission_cleared",
                                               r, "", t, None)>>)
               /\ calls' = [calls EXCEPT ![c].pc = "done", ![c].result = "ok"]
          ELSE /\ nextPermId <= MaxPermId
               /\ nextPermId' = nextPermId + 1
               /\ IF UniqueViolation(t, r)
                  THEN /\ UNCHANGED perms
                       /\ socket' \in Emitted(<< >>)
                       /\ calls' = [calls EXCEPT ![c].pc = "done", ![c].result = "error"]
                  ELSE /\ perms' = perms \cup {[id |-> nextPermId, team_id |-> t,
                                                round_id |-> r]}
                       /\ socket' \in Emitted(<<Event("clear_team_submission",
                                                       "submission_cleared", r, "", t, None)>>)
                       /\ calls' = [calls EXCEPT ![c].pc = "done", ![c].result = "ok"]
    /\ UNCHANGED <<game, rounds, answers, reqs, last, teams, job>>

\* ------------------------------------------------------------ away time
\* api.py:1031, 1040  the conditions under which tick_away_time and
\* report_tab_switch count: tracking on, game not paused, a round open
Tracking(t) ==
    /\ game.tab_penalty_enabled
    /\ game.pause_mode = NoPause
    /\ \E r \in RoundIds : rounds[r].game_id = TeamGame[t] /\ rounds[r].is_open

\* api.py:1076-1123  report_tab_switch
report_tab_switch(t) ==
    /\ IF Tracking(t)
       THEN /\ teams[t].tab_switch_count < MaxSwitch
            /\ teams' = [teams EXCEPT ![t].tab_switch_count = @ + 1]
            /\ socket' \in Emitted(<<Event("report_tab_switch", "tab_switch_updated",
                                            None, "", t, None),
                                      Event("report_tab_switch", "tab_switch_updated",
                                            None, "", t, None)>>)
       ELSE /\ UNCHANGED teams
            /\ socket' \in Emitted(<< >>)
    /\ UNCHANGED <<game, rounds, answers, perms, nextPermId, reqs, last, job, calls>>

\* api.py:1126-1180  report_away_time with body {'seconds': seconds}: the
\* pause is not looked at
report_away_time(t, seconds) ==
    /\ IF /\ game.tab_penalty_enabled
          /\ \E r \in RoundIds : rounds[r].game_id = TeamGame[t] /\ rounds[r].is_open
          /\ seconds > 0
       THEN /\ teams[t].tab_away_seconds + seconds <= MaxAway
            /\ teams' = [teams EXCEPT ![t].tab_away_seconds = @ + seconds]
            /\ socket' \in Emitted(<<Event("report_away_time", "tab_penalty_updated",
                                            None, "", t, None)>>)
       ELSE /\ UNCHANGED teams
            /\ socket' \in Emitted(<< >>)
    /\ UNCHANGED <<game, rounds, answers, perms, nextPermId, reqs, last, job, calls>>

\* api.py:1182-1207  reset_tab_penalty
reset_tab_penalty(t) ==
    /\ teams' = [teams EXCEPT ![t].tab_away_seconds = 0, ![t].tab_switch_count = 0]
    /\ socket' \in Emitted(<<Event("reset_tab_penalty", "tab_penalty_updated",
                                    None, "", t, None),
                              Event("reset_tab_penalty", "tab_switch_updated",
                                    None, "", t, None)>>)
    /\ UNCHANGED <<game, rounds, answers, perms, nextPermId, reqs, last, job, calls>>

\* api.py:1257-1293  toggle_tab_penalty: the body's 'enabled' value ("true"
\* or "false"), or the opposite of the stored one when the body has none
\* ("absent")
toggle_tab_penalty(enabled) ==
    /\ game' = [game EXCEPT !.tab_penalty_enabled =
                   IF enabled = "absent" THEN ~game.tab_penalty_enabled
                   ELSE enabled = "true"]
    /\ socket' \in Emitted(<<Event("toggle_tab_penalty", "tab_penalty_tracking_changed",
                                    None, "", None, None),
                              Event("toggle_tab_penalty", "tab_penalty_tracking_changed",
                                    None, "", None, None)>>)
    /\ UNCHANGED <<rounds, answers, perms, nextPermId, reqs, last, teams, job, calls>>

\* ------------------------------------------------- overlapping ticks
\* api.py:1024-1046  tick_away_time up to the point where it has loaded the
\* Team row and passed the checks; a request that fails one has returned
tick_away_time_read(c, t) ==
    /\ calls[c].pc = "idle"
    /\ calls' = [calls EXCEPT ![c] =
           IF ~game.tab_penalty_enabled \/ game.pause_mode # NoPause
           THEN [IdleCall EXCEPT !.pc = "done", !.op = "tick", !.team = t,
                                 !.seen = teams[t].tab_away_seconds,
                                 !.result = "tracking_disabled"]
           ELSE IF ~\E r \in RoundIds : rounds[r].game_id = TeamGame[t] /\ rounds[r].is_open
           THEN [IdleCall EXCEPT !.pc = "done", !.op = "tick", !.team = t,
                                 !.seen = teams[t].tab_away_seconds,
                                 !.result = "game_finished"]
           ELSE [IdleCall EXCEPT !.pc = "read", !.op = "tick", !.team = t,
                                 !.seen = teams[t].tab_away_seconds]]
    /\ IF Tracking(t) THEN UNCHANGED socket ELSE socket' \in Emitted(<< >>)
    /\ UNCHANGED <<game, rounds, answers, perms, nextPermId, reqs, last, teams, job>>

\* api.py:1048-1072  the rest of tick_away_time: the value the request
\* loaded, plus 1, is written to the row and committed, then the emits
tick_away_time_commit(c) ==
    /\ calls[c].pc = "read" /\ calls[c].op = "tick"
    /\ calls[c].seen < MaxAway
    /\ teams' = [teams EXCEPT ![calls[c].team].tab_away_seconds = calls[c].seen + 1]
    /\ calls' = [calls EXCEPT ![c].pc = "done", ![c].value = calls[c].seen + 1,
                              ![c].result = "ok"]
    /\ socket' \in Emitted(<<Event("tick_away_time", "tab_time_updated",
                                    None, "", calls[c].team, None),
                              Event("tick_away_time", "tab_time_updated",
                                    None, "", calls[c].team, None)>>)
    /\ UNCHANGED <<game, rounds, answers, perms, nextPermId, reqs, last, job>>

\* api.py:1210-1250  set_tab_away_seconds as one of the overlapping requests:
\* it writes the value of its body whatever the row held
set_tab_away_seconds_call(c, t, seconds) ==
    /\ calls[c].pc = "idle"
    /\ teams' = [teams EXCEPT ![t].tab_away_seconds = IF seconds < 0 THEN 0 ELSE seconds]
    /\ calls' = [calls EXCEPT ![c] =
           [IdleCall EXCEPT !.pc = "done", !.op = "set", !.team = t,
                            !.seen = teams[t].tab_away_seconds,
                            !.value = IF seconds < 0 THEN 0 ELSE seconds,
                            !.result = "ok"]]
    /\ socket' \in Emitted(<<Event("set_tab_away_seconds", "tab_penalty_updated", None, "", t, None),
                           Event("set_tab_away_seconds", "tab_penalty_tracking_changed",
                                 None, "", None, None)>>)
    /\ UNCHANGED <<game, rounds, answers, perms, nextPermId, reqs, last, job>>

\* ------------------------------------------------------------------ Next
\* Inputs of the admin's create_answer calls in the runs below.
AdminTeams == {1}
AdminQIds  == {"q1"}
AdminTexts == {"b"}

\* Every operation of the model.
Next ==
    \/ \E i \in Reqs, t \in Teams, r \in RoundIds, v \in Texts : submit_round_check(i, t, r, v)
    \/ \E i \in Reqs : submit_round_commit(i)
    \/ \E i \in Reqs : submit_round_rollback(i)
    \/ \E r \in RoundIds : toggle_round(r)
    \/ \E r \in RoundIds, qs \in QuestionLists : update_questions(r, qs)
    \/ \E p \in {None} \cup RoundIds : create_round(p)
    \/ \E id \in RoundIds, o \in 1..MaxOrder, hp \in BOOLEAN, p \in {None} \cup RoundIds :
          reorder_rounds(id, o, hp, p)
    \/ \E t \in AdminTeams, r \in RoundIds, q \in AdminQIds, v \in AdminTexts :
          create_answer(t, r, q, v)
    \/ \E r \in RoundIds, t \in Teams : clear_team_submission(r, t)
    \/ finish_game
    \/ unfinish_game

Spec == Init /\ [][Next]_vars

\* The submission state machine of one round: concurrent submit_round
\* requests against the admin's close, grant and answer entry.
NextSubmit ==
    \/ \E i \in Reqs, t \in Teams, r \in RoundIds, v \in Texts : submit_round_check(i, t, r, v)
    \/ \E i \in Reqs : submit_round_commit(i)
    \/ \E i \in Reqs : submit_round_rollback(i)
    \/ \E r \in RoundIds : toggle_round(r)
    \/ \E t \in AdminTeams, r \in RoundIds, q \in AdminQIds, v \in AdminTexts :
          create_answer(t, r, q, v)
    \/ \E r \in RoundIds, t \in Teams : clear_team_submission(r, t)

\* The round's question list is any of the bodies update_questions stores.
InitSubmit ==
    /\ game = NewGame
    /\ \E qs \in QuestionLists :
          rounds = (1 :> [game_id |-> GameId, parent_id |-> None, order |-> 1,
                          is_open |-> TRUE, questions |-> qs,
                          betting_results |-> << >>])
    /\ answers = {}
    /\ perms = {}
    /\ nextPermId = 1
    /\ reqs = [i \in Reqs |-> IdleReq]
    /\ last = NoResponse
    /\ teams = [t \in Teams |-> NewTeam]
    /\ job = NoJob
    /\ socket = NoSocket
    /\ calls = NoCalls

SpecSubmit == InitSubmit /\ [][NextSubmit]_vars

\* The round hierarchy: one team's submissions against the admin creating,
\* reordering, filling and closing rounds.
GameTeams == {1}
GameTexts == {"a"}

NextGame ==
    \/ \E t \in GameTeams, r \in RoundIds, v \in GameTexts : submit_round_check(1, t, r, v)
    \/ submit_round_commit(1)
    \/ submit_round_rollback(1)
    \/ \E r \in RoundIds : toggle_round(r)
    \/ \E r \in RoundIds, qs \in QuestionLists : update_questions(r, qs)
    \/ \E p \in {None} \cup RoundIds : create_round(p)
    \/ \E id \in RoundIds, o \in 1..MaxOrder, hp \in BOOLEAN, p \in {None} \cup RoundIds :
          reorder_rounds(id, o, hp, p)

SpecGame == Init /\ [][NextGame]_vars

\* The visibility gate: a game of two rounds with questions, one team's
\* submissions against the admin reordering and closing the rounds and
\* finishing and reopening the game.
InitView ==
    /\ game = NewGame
    /\ rounds = (1 :> [game_id |-> GameId, parent_id |-> None, order |-> 1,
                       is_open |-> TRUE, questions |-> <<"q1", "q2">>,
                       betting_results |-> << >>])
              @@ (2 :> [game_id |-> GameId, parent_id |-> None, order |-> 2,
                        is_open |-> TRUE, questions |-> <<"q1", "q2">>,
                       betting_results |-> << >>])
    /\ answers = {}
    /\ perms = {}
    /\ nextPermId = 1
    /\ reqs = [i \in Reqs |-> IdleReq]
    /\ last = NoResponse
    /\ teams = [t \in Teams |-> NewTeam]
    /\ job = NoJob
    /\ socket = NoSocket
    /\ calls = NoCalls

NextView ==
    \/ \E t \in GameTeams, r \in RoundIds, v \in GameTexts : submit_round_check(1, t, r, v)
    \/ submit_round_commit(1)
    \/ submit_round_rollback(1)
    \/ \E r \in RoundIds : toggle_round(r)
    \/ \E id \in RoundIds, o \in 1..MaxOrder, hp \in BOOLEAN, p \in {None} \cup RoundIds :
          reorder_rounds(id, o, hp, p)
    \/ finish_game
    \/ unfinish_game

SpecView == InitView /\ [][NextView]_vars

\* Betting: one team's bets on the betting question of a round, the admin's
\* entry and edit of answers, and the settlement of the bets.
FinishOrders == {<<"h1", "h2">>, <<"h2", "h3", "h1">>}
EditTexts == {"b", "5"}

InitBetting ==
    /\ game = NewGame
    /\ rounds = (1 :> [game_id |-> GameId, parent_id |-> None, order |-> 1,
                       is_open |-> TRUE, questions |-> <<BetQId>>,
                       betting_results |-> << >>])
    /\ answers = {}
    /\ perms = {}
    /\ nextPermId = 1
    /\ reqs = [i \in Reqs |-> IdleReq]
    /\ last = NoResponse
    /\ teams = [t \in Teams |-> NewTeam]
    /\ job = NoJob
    /\ socket = NoSocket
    /\ calls = NoCalls

NextBetting ==
    \/ \E t \in GameTeams, r \in RoundIds, v \in Texts : submit_round_check(1, t, r, v)
    \/ submit_round_commit(1)
    \/ submit_round_rollback(1)
    \/ \E r \in RoundIds, res \in FinishOrders : set_betting_results_read(r, BetQId, res)
    \/ set_betting_results_commit
    \/ \E r \in RoundIds, v \in EditTexts : create_answer(2, r, BetQId, v)
    \/ \E id \in 1..MaxAnswers, v \in EditTexts : update_answer_text(id, v)
    \/ \E r \in RoundIds, t \in GameTeams : clear_team_submission(r, t)

SpecBetting == InitBetting /\ [][NextBetting]_vars

\* Totals: one team's answers, the admin's score overrides, custom scores
\* and away time.
ScoreKeys   == {{"points"}, {"bonus_points"}, {"penalty_points"}, {"points", "bonus_points"}}
ScoreValues == {0, 2}
CustomColumns == {"c1", "c2"}
CustomValues  == {-1, 3}
AwaySeconds   == {-5, 9, 10, 25}

NextTotals ==
    \/ \E t \in GameTeams, r \in RoundIds, v \in Texts : submit_round_check(1, t, r, v)
    \/ submit_round_commit(1)
    \/ submit_round_rollback(1)
    \/ \E id \in 1..MaxAnswers, k \in ScoreKeys, v \in ScoreValues : update_answer_score(id, k, v)
    \/ \E t \in AdminTeams, c \in CustomColumns, v \in CustomValues : update_custom_score(t, c, v)
    \/ \E t \in AdminTeams, sec \in AwaySeconds : set_tab_away_seconds(t, sec)

SpecTotals == Init /\ [][NextTotals]_vars

\* Navigation: a game with a container round, its child and a top-level
\* leaf round; the admin enters a team's answers, closes and reorders the
\* rounds, grants resubmissions and pauses the game.
PauseModes == {NoPause, "starting", "halftime", "soon"}

InitNav ==
    /\ game = NewGame
    /\ rounds = (1 :> [game_id |-> GameId, parent_id |-> None, order |-> 1,
                       is_open |-> TRUE, questions |-> << >>,
                       betting_results |-> << >>])
              @@ (2 :> [game_id |-> GameId, parent_id |-> None, order |-> 2,
                        is_open |-> TRUE, questions |-> <<"q1", "q2">>,
                        betting_results |-> << >>])
              @@ (3 :> [game_id |-> GameId, parent_id |-> 1, order |-> 1,
                        is_open |-> TRUE, questions |-> <<"q1", "q2">>,
                        betting_results |-> << >>])
    /\ answers = {}
    /\ perms = {}
    /\ nextPermId = 1
    /\ reqs = [i \in Reqs |-> IdleReq]
    /\ last = NoResponse
    /\ teams = [t \in Teams |-> NewTeam]
    /\ job = NoJob
    /\ socket = NoSocket
    /\ calls = NoCalls

NextNav ==
    \/ \E t \in AdminTeams, r \in RoundIds, q \in AdminQIds, v \in AdminTexts :
          create_answer(t, r, q, v)
    \/ \E r \in RoundIds : toggle_round(r)
    \/ \E id \in RoundIds, o \in 1..MaxOrder : reorder_rounds(id, o, FALSE, None)
    \/ \E r \in RoundIds, t \in AdminTeams : clear_team_submission(r, t)
    \/ \E m \in PauseModes : set_game_pause(m)

SpecNav == InitNav /\ [][NextNav]_vars

\* A multi-part round: a container with three sub-rounds, one team's
\* submissions and the admin closing and reopening rounds.
InitParts ==
    /\ game = NewGame
    /\ rounds = [r \in 1..4 |->
                    [game_id |-> GameId,
                     parent_id |-> IF r = 1 THEN None ELSE 1,
                     order |-> IF r = 1 THEN 1 ELSE r - 1,
                     is_open |-> TRUE,
                     questions |-> IF r = 1 THEN << >> ELSE <<"q1", "q2">>,
                     betting_results |-> << >>]]
    /\ answers = {}
    /\ perms = {}
    /\ nextPermId = 1
    /\ reqs = [i \in Reqs |-> IdleReq]
    /\ last = NoResponse
    /\ teams = [t \in Teams |-> NewTeam]
    /\ job = NoJob
    /\ socket = NoSocket
    /\ calls = NoCalls

NextParts ==
    \/ \E t \in GameTeams, r \in RoundIds, v \in GameTexts : submit_round_check(1, t, r, v)
    \/ submit_round_commit(1)
    \/ submit_round_rollback(1)
    \/ \E r \in RoundIds : toggle_round(r)

SpecParts == InitParts /\ [][NextParts]_vars

\* Dedup pass: three Answer rows of any text and points, two of them of one
\* team in one round (on the same question or on two), the third in or out
\* of that scope; the pass is run over them with any of the question lists.
DedupTexts  == {"a", "A", "b", ""}
DedupPoints == {0, 1}
DedupLists  == {<<"q1", "q2">>, <<"q2", "q1">>, <<"q1", "q1", "q2">>, <<"q3", "q2", "q1">>}
DedupThird  == {<<1, 1, "q2">>, <<1, 1, "q3">>, <<1, 2, "q2">>, <<2, 1, "q2">>}

AnswerRow(id, team_id, round_id, question_id, answer_text, points) ==
    [id |-> id, team_id |-> team_id, round_id |-> round_id,
     question_id |-> question_id, answer_text |-> answer_text, points |-> points,
     bonus_points |-> 0, penalty_points |-> 0]

InitDedup ==
    /\ game = NewGame
    /\ rounds = [r \in 1..2 |-> [game_id |-> GameId, parent_id |-> None, order |-> r,
                                 is_open |-> TRUE, questions |-> <<"q1", "q2">>,
                                 betting_results |-> << >>]]
    /\ \E v1, v2, v3 \in DedupTexts, p1, p2, p3 \in DedupPoints,
          q2 \in QIds, k3 \in DedupThird :
          answers = {AnswerRow(1, 1, 1, "q1", v1, p1),
                     AnswerRow(2, 1, 1, q2, v2, p2),
                     AnswerRow(3, k3[1], k3[2], k3[3], v3, p3)}
    /\ perms = {}
    /\ nextPermId = 1
    /\ reqs = [i \in Reqs |-> IdleReq]
    /\ last = NoResponse
    /\ teams = [t \in Teams |-> NewTeam]
    /\ job = NoJob
    /\ socket = NoSocket
    /\ calls = NoCalls

NextDedup ==
    \E t \in Teams, r \in RoundIds, qs \in DedupLists : apply_round_deduplication(t, r, qs)

SpecDedup == InitDedup /\ [][NextDedup]_vars

\* Stakes: an open round with three betting questions (max_bet 3, 1 and 0);
\* the team posts a stake in range, above it, below it, unparsable
\* or the default of a missing field, and the admin clears its answers.
StakeForms == {"a", "b", "c", "d", "e"}

InitStake ==
    /\ game = NewGame
    /\ rounds = (1 :> [game_id |-> GameId, parent_id |-> None, order |-> 1,
                       is_open |-> TRUE, questions |-> <<"q3", "q4", "q5">>,
                       betting_results |-> << >>])
    /\ answers = {}
    /\ perms = {}
    /\ nextPermId = 1
    /\ reqs = [i \in Reqs |-> IdleReq]
    /\ last = NoResponse
    /\ teams = [t \in Teams |-> NewTeam]
    /\ job = NoJob
    /\ socket = NoSocket
    /\ calls = NoCalls

NextStake ==
    \/ \E t \in GameTeams, r \in RoundIds, v \in StakeForms : submit_round_check(1, t, r, v)
    \/ submit_round_commit(1)
    \/ submit_round_rollback(1)
    \/ \E r \in RoundIds, t \in GameTeams : clear_team_submission(r, t)

SpecStake == InitStake /\ [][NextStake]_vars

\* Broadcasts: Socket.IO is available and an emit may raise.  One team
\* answers a round with a free-text and a betting question; the admin
\* closes the round, settles the bets, overrides a score, edits an answer
\* text and edits a question; the team's away time ticks.
EmitScore == 2
EmitOrder == <<"h1", "h2">>
EmitKeys  == {{"text"}, {"validation"}}

InitEmit ==
    /\ game = NewGame
    /\ rounds = (1 :> [game_id |-> GameId, parent_id |-> None, order |-> 1,
                       is_open |-> TRUE, questions |-> <<"q1", BetQId>>,
                       betting_results |-> << >>])
    /\ answers = {}
    /\ perms = {}
    /\ nextPermId = 1
    /\ reqs = [i \in Reqs |-> IdleReq]
    /\ last = NoResponse
    /\ teams = [t \in Teams |-> NewTeam]
    /\ job = NoJob
    /\ socket = [available |-> TRUE, log |-> << >>]
    /\ calls = NoCalls

NextEmit ==
    \/ \E t \in GameTeams, r \in RoundIds, v \in GameTexts : submit_round_check(1, t, r, v)
    \/ submit_round_commit(1)
    \/ submit_round_rollback(1)
    \/ \E r \in RoundIds : toggle_round(r)
    \/ \E r \in RoundIds : set_betting_results_read(r, BetQId, EmitOrder)
    \/ set_betting_results_commit
    \/ \E id \in 1..MaxAnswers : update_answer_score(id, {"points"}, EmitScore)
    \/ \E id \in 1..MaxAnswers : update_answer_text(id, "b")
    \/ \E r \in RoundIds, q \in {"q1", BetQId}, keys \in EmitKeys : update_question(r, q, keys)
    \/ \E t \in GameTeams : tick_away_time(t)

SpecEmit == InitEmit /\ [][NextEmit]_vars

\* Ranking: three teams of the game and one of another game; the admin
\* enters answers, custom scores and away times.
RankTeams   == {1, 2, 3, 4}
RankScores  == {-1, 3}
RankSeconds == {0, 10}

InitRank ==
    /\ game = NewGame
    /\ rounds = (1 :> [game_id |-> GameId, parent_id |-> None, order |-> 1,
                       is_open |-> TRUE, questions |-> <<"q1">>,
                       betting_results |-> << >>])
    /\ answers = {}
    /\ perms = {}
    /\ nextPermId = 1
    /\ reqs = [i \in Reqs |-> IdleReq]
    /\ last = NoResponse
    /\ teams = [t \in RankTeams |-> NewTeam]
    /\ job = NoJob
    /\ socket = NoSocket
    /\ calls = NoCalls

NextRank ==
    \/ \E t \in {1, 3}, v \in Texts : create_answer(t, 1, "q1", v)
    \/ \E t \in {3, 4}, v \in RankScores : update_custom_score(t, "c1", v)
    \/ \E t \in {1, 4}, sec \in RankSeconds : set_tab_away_seconds(t, sec)
    \/ finish_game

SpecRank == InitRank /\ [][NextRank]_vars

\* Orderings: an open round with the two ordering questions; the team posts
\* one of the orderings, and the admin lets it resubmit.
InitOrder ==
    /\ game = NewGame
    /\ rounds = (1 :> [game_id |-> GameId, parent_id |-> None, order |-> 1,
                       is_open |-> TRUE, questions |-> <<"q6", "q7">>,
                       betting_results |-> << >>])
    /\ answers = {}
    /\ perms = {}
    /\ nextPermId = 1
    /\ reqs = [i \in Reqs |-> IdleReq]
    /\ last = NoResponse
    /\ teams = [t \in Teams |-> NewTeam]
    /\ job = NoJob
    /\ socket = NoSocket
    /\ calls = NoCalls

NextOrder ==
    \/ \E t \in GameTeams, r \in RoundIds, v \in StakeForms : submit_round_check(1, t, r, v)
    \/ submit_round_commit(1)
    \/ submit_round_rollback(1)
    \/ \E r \in RoundIds, t \in GameTeams : clear_team_submission(r, t)

SpecOrder == InitOrder /\ [][NextOrder]_vars

\* Estimates: an open round with two estimate questions on the same correct
\* answer, which two teams of the game estimate, and a second one with an
\* estimate of 0, which one of them does.
EstimateTexts == {"10", "11", "12", "13", "14", "x"}
ZeroTexts == {"0", "10"}
EstimateTeams == {1, 3}

InitEstimate ==
    /\ game = NewGame
    /\ rounds = [r \in 1..2 |-> [game_id |-> GameId, parent_id |-> None, order |-> r,
                                 is_open |-> TRUE,
                                 questions |-> IF r = 1 THEN <<"q8", "q9">> ELSE <<"q10">>,
                                 betting_results |-> << >>]]
    /\ answers = {}
    /\ perms = {}
    /\ nextPermId = 1
    /\ reqs = [i \in Reqs |-> IdleReq]
    /\ last = NoResponse
    /\ teams = [t \in Teams \cup EstimateTeams |-> NewTeam]
    /\ job = NoJob
    /\ socket = NoSocket
    /\ calls = NoCalls

NextEstimate ==
    \/ \E t \in EstimateTeams, v \in EstimateTexts : submit_round_check(1, t, 1, v)
    \/ \E v \in ZeroTexts : submit_round_check(1, 1, 2, v)
    \/ submit_round_commit(1)
    \/ submit_round_rollback(1)

SpecEstimate == InitEstimate /\ [][NextEstimate]_vars

\* Re-grading: an open round with one question of each graded kind (free
\* text, betting, ordering, estimate); a team submits it, the host edits a
\* question with its values unchanged, or saves again a text that the round
\* already holds.
RegradeForms == {"a", "b", "10"}
RegradeQIds == <<"q1", "q3", "q6", "q8">>
RegradeKeys == {{"text"}, {"validation"}, {"correct_answer"}}

InitRegrade ==
    /\ game = NewGame
    /\ rounds = (1 :> [game_id |-> GameId, parent_id |-> None, order |-> 1,
                       is_open |-> TRUE, questions |-> RegradeQIds,
                       betting_results |-> << >>])
    /\ answers = {}
    /\ perms = {}
    /\ nextPermId = 1
    /\ reqs = [i \in Reqs |-> IdleReq]
    /\ last = NoResponse
    /\ teams = [t \in Teams |-> NewTeam]
    /\ job = NoJob
    /\ socket = NoSocket
    /\ calls = NoCalls

NextRegrade ==
    \/ \E t \in GameTeams, r \in RoundIds, v \in RegradeForms : submit_round_check(1, t, r, v)
    \/ submit_round_commit(1)
    \/ submit_round_rollback(1)
    \/ \E r \in RoundIds, k \in 1..Len(RegradeQIds), keys \in RegradeKeys :
          update_question(r, RegradeQIds[k], keys)
    \/ \E id \in 1..MaxAnswers, b \in answers : update_answer_text(id, b.answer_text)

SpecRegrade == InitRegrade /\ [][NextRegrade]_vars

\* Grants: two admin requests of clear_team_submission that may overlap, a
\* third that does not, and the team's submissions, which consume the
\* permission.
GrantCalls == {1, 2}

InitGrant ==
    /\ game = NewGame
    /\ rounds = [r \in 1..2 |-> [game_id |-> GameId, parent_id |-> None, order |-> r,
                                 is_open |-> TRUE, questions |-> <<"q1">>,
                                 betting_results |-> << >>]]
    /\ answers = {}
    /\ perms = {}
    /\ nextPermId = 1
    /\ reqs = [i \in Reqs |-> IdleReq]
    /\ last = NoResponse
    /\ teams = [t \in Teams |-> NewTeam]
    /\ job = NoJob
    /\ socket = NoSocket
    /\ calls = NoCalls

NextGrant ==
    \/ \E c \in GrantCalls, r \in RoundIds, t \in Teams : clear_team_submission_read(c, r, t)
    \/ \E c \in GrantCalls : clear_team_submission_commit(c)
    \/ \E r \in RoundIds, t \in Teams : clear_team_submission(r, t)
    \/ \E t \in GameTeams, r \in RoundIds, v \in GameTexts : submit_round_check(1, t, r, v)
    \/ submit_round_commit(1)
    \/ submit_round_rollback(1)

SpecGrant == InitGrant /\ [][NextGrant]_vars

\* Resubmissions: a team's submissions of a round of two questions, the
\* admin's bonus and penalty on its answers, and the grant of a resubmission.
AdjustKeys == {{"bonus_points"}, {"penalty_points"}}
AdjustValue == 2

InitResubmit ==
    /\ game = NewGame
    /\ rounds = (1 :> [game_id |-> GameId, parent_id |-> None, order |-> 1,
                       is_open |-> TRUE, questions |-> <<"q1", "q2">>,
                       betting_results |-> << >>])
    /\ answers = {}
    /\ perms = {}
    /\ nextPermId = 1
    /\ reqs = [i \in Reqs |-> IdleReq]
    /\ last = NoResponse
    /\ teams = [t \in Teams |-> NewTeam]
    /\ job = NoJob
    /\ socket = NoSocket
    /\ calls = NoCalls

NextResubmit ==
    \/ \E t \in GameTeams, r \in RoundIds, v \in Texts : submit_round_check(1, t, r, v)
    \/ submit_round_commit(1)
    \/ submit_round_rollback(1)
    \/ \E r \in RoundIds, t \in GameTeams : clear_team_submission(r, t)
    \/ \E id \in 1..MaxAnswers, k \in AdjustKeys : update_answer_score(id, k, AdjustValue)

SpecResubmit == InitResubmit /\ [][NextResubmit]_vars

\* Away time: two teams of the game report their time away and their tab
\* switches while the admin pauses and resumes the game, switches the
\* tracking, closes and opens the round and resets a team.
AwayTeams == {1, 3}
AwayReports == {0, 1}

InitAway ==
    /\ game = NewGame
    /\ rounds = (1 :> [game_id |-> GameId, parent_id |-> None, order |-> 1,
                       is_open |-> TRUE, questions |-> <<"q1">>,
                       betting_results |-> << >>])
    /\ answers = {}
    /\ perms = {}
    /\ nextPermId = 1
    /\ reqs = [i \in Reqs |-> IdleReq]
    /\ last = NoResponse
    /\ teams = [t \in Teams \cup AwayTeams |-> NewTeam]
    /\ job = NoJob
    /\ socket = NoSocket
    /\ calls = NoCalls

NextAway ==
    \/ \E t \in AwayTeams : tick_away_time(t)
    \/ \E t \in AwayTeams, sec \in AwayReports : report_away_time(t, sec)
    \/ \E t \in AwayTeams : report_tab_switch(t)
    \/ \E t \in AwayTeams : reset_tab_penalty(t)
    \/ \E m \in PauseModes : set_game_pause(m)
    \/ \E enabled \in {"true", "false", "absent"} : toggle_tab_penalty(enabled)
    \/ \E r \in RoundIds : toggle_round(r)

SpecAway == InitAway /\ [][NextAway]_vars

\* Ticks: two tick_away_time requests of the teams' clients that may overlap
\* each other and one set_tab_away_seconds of the admin, in a running game
\* with its round open.
TickCalls == {1, 2}
SetCall == 3
SetSeconds == {0, 1}

NextTick ==
    \/ \E c \in TickCalls, t \in AwayTeams : tick_away_time_read(c, t)
    \/ \E c \in TickCalls : tick_away_time_commit(c)
    \/ \E t \in AwayTeams, sec \in SetSeconds : set_tab_away_seconds_call(SetCall, t, sec)

SpecTick == InitAway /\ [][NextTick]_vars

\* Pause: a team's submissions and resubmissions of a round while the admin
\* pauses and resumes the game.
NextPause ==
    \/ \E t \in GameTeams, r \in RoundIds, v \in Texts : submit_round_check(1, t, r, v)
    \/ submit_round_commit(1)
    \/ submit_round_rollback(1)
    \/ \E r \in RoundIds, t \in GameTeams : clear_team_submission(r, t)
    \/ \E m \in PauseModes : set_game_pause(m)

SpecPause == InitResubmit /\ [][NextPause]_vars

\* Sheet and leaderboard: a team's submissions of a round, the admin's
\* bonus and penalty, custom scores, and the edit of the round's question
\* list.
NextSheet ==
    \/ \E t \in GameTeams, r \in RoundIds, v \in Texts : submit_round_check(1, t, r, v)
    \/ submit_round_commit(1)
    \/ submit_round_rollback(1)
    \/ \E r \in RoundIds, qs \in QuestionLists : update_questions(r, qs)
    \/ \E id \in 1..MaxAnswers, k \in AdjustKeys : update_answer_score(id, k, AdjustValue)
    \/ \E t \in GameTeams, v \in CustomValues : update_custom_score(t, "c1", v)

SpecSheet == InitResubmit /\ [][NextSheet]_vars

\* =================================================================
\* Properties of the submission state machine (SpecSubmit)
\* =================================================================
Rejected == {"rejected_game", "rejected_closed", "rejected_submitted"}

\* a step that leaves every Answer and every ResubmitPermission as it was
DbUnchanged == answers' = answers /\ perms' = perms

\* a step in which a submit_round request is turned away at its checks
RejectedStep == last'.result \in Rejected /\ reqs' = reqs /\ DbUnchanged

\* the step in which request i commits and is answered "accepted"
CommitStep(i) ==
    reqs[i].pc = "ready" /\ reqs'[i].pc = "idle" /\ last'.result = "accepted"

\* the step in which the commit of request i fails and is rolled back
RollbackStep(i) ==
    reqs[i].pc = "ready" /\ reqs'[i].pc = "idle" /\ last'.result = "failed"

\* the team holds an Answer of every question in qs with the text v
HoldsAll(ans, t, r, qs, v) ==
    \A k \in 1..Len(qs) :
        \E a \in ans : /\ a.team_id = t /\ a.round_id = r
                       /\ a.question_id = qs[k] /\ a.answer_text = v

\* C1: a submit_round whose team already holds an Answer for the round while
\* no ResubmitPermission exists for the pair is rejected, and it changes no
\* Answer and no permission.
C1_RejectedWithoutPermission ==
    [][\A i \in Reqs, t \in Teams, r \in RoundIds, v \in Texts :
          (/\ submit_round_check(i, t, r, v)
           /\ TeamRoundAnswers(t, r) # {}
           /\ PermissionFor(t, r) = {}) => RejectedStep]_vars

\* C1 witness: the request was rejected as already submitted, the team holds
\* answers for the round and no permission exists.
C1_Witness ==
    /\ last.result = "rejected_submitted"
    /\ TeamRoundAnswers(last.team, last.round) # {}
    /\ PermissionFor(last.team, last.round) = {}

\* C2 (as stated): a submit_round that was let through with a permission
\* deletes that permission in the commit that writes its answers, and the
\* next submit_round of the pair, no permission existing, is rejected.
C2_Original ==
    /\ [][\A i \in Reqs :
            (CommitStep(i) /\ reqs[i].perm # None)
               => \A p \in perms' : p.id # reqs[i].perm]_vars
    /\ [][\A i \in Reqs, t \in Teams, r \in RoundIds, v \in Texts :
            (/\ submit_round_check(i, t, r, v)
             /\ last.result = "accepted" /\ last.perm # None
             /\ last.team = t /\ last.round = r
             /\ PermissionFor(t, r) = {}) => RejectedStep]_vars

\* C2 (amended): the same, for a team that holds an Answer for the round
\* once the permitted submission is committed.
C2_OneGrantOneSubmission ==
    /\ [][\A i \in Reqs :
            (CommitStep(i) /\ reqs[i].perm # None)
               => /\ \A p \in perms' : p.id # reqs[i].perm
                  /\ HoldsAll(answers', reqs[i].team, reqs[i].round,
                              reqs[i].questions, reqs[i].text)]_vars
    /\ [][\A i \in Reqs, t \in Teams, r \in RoundIds, v \in Texts :
            (/\ submit_round_check(i, t, r, v)
             /\ last.result = "accepted" /\ last.perm # None
             /\ last.team = t /\ last.round = r
             /\ TeamRoundAnswers(t, r) # {}
             /\ PermissionFor(t, r) = {}) => RejectedStep]_vars

\* C2 witness: a permitted resubmission was accepted, its answers are
\* stored and its permission is gone.
C2_Witness ==
    /\ last.result = "accepted" /\ last.perm # None
    /\ rounds[last.round].questions # << >>
    /\ HoldsAll(answers, last.team, last.round, rounds[last.round].questions, last.text)
    /\ PermissionFor(last.team, last.round) = {}

\* C3: a submit_round on a closed round is rejected whether or not a
\* permission exists; no Answer changes and the permission is not consumed.
C3_ClosedRoundRejects ==
    [][\A i \in Reqs, t \in Teams, r \in RoundIds, v \in Texts :
          (submit_round_check(i, t, r, v) /\ ~rounds[r].is_open) => RejectedStep]_vars

\* C3 witness: rejected on a closed round although a permission exists.
C3_Witness ==
    /\ last.result = "rejected_closed"
    /\ ~rounds[last.round].is_open
    /\ PermissionFor(last.team, last.round) # {}
    /\ TeamRoundAnswers(last.team, last.round) # {}

\* C4: of two overlapping submit_round requests of a team that has already
\* submitted, with one permission, at most one is accepted: an accepted
\* resubmission consumes a permission that still exists when it commits.
C4_GrantSpentOnce ==
    [][\A i \in Reqs :
          (CommitStep(i) /\ reqs[i].existing # {} /\ reqs[i].perm # None)
             => \E p \in perms : p.id = reqs[i].perm]_vars

\* C5: once a round's close is committed no submit_round commit writes
\* Answers for it.
C5_NoWriteAfterClose ==
    [][\A i \in Reqs :
          (CommitStep(i) /\ answers' # answers)
             => rounds[reqs[i].round].is_open]_vars

\* C6: at most one Answer per (team, round, question id).
C6_OneAnswerPerTriple ==
    \A a, b \in answers :
        (a.team_id = b.team_id /\ a.round_id = b.round_id
         /\ a.question_id = b.question_id) => a = b

C8_NoAnswerOnContainer ==
    \A a \in answers : ~HasChildren(a.round_id)

\* the condition under which the scores are to be hidden from a team
HiddenCondition(team, final_round) ==
    /\ final_round # None
    /\ ~rounds[final_round].is_open
    /\ TeamRoundAnswers(team, final_round) # {}

\* C9: while the game is unfinished, get_leaderboard and scoreboard hide the
\* scores from a team exactly when the final round exists, is closed and
\* holds an Answer of the team, so the two agree.
C9_HiddenOnlyAfterClosedFinal ==
    ~game.is_finished =>
        \A t \in Teams, f \in FinalRounds :
            /\ get_leaderboard(t, f) = HiddenCondition(t, f)
            /\ scoreboard(t, f) = HiddenCondition(t, f)
            /\ get_leaderboard(t, f) = scoreboard(t, f)

\* C10: scores are never hidden while game.is_finished holds, nor from a
\* request that carries no team.
C10_RevealedWhenFinished ==
    \A f \in FinalRounds :
        /\ game.is_finished =>
              \A t \in Teams : ~get_leaderboard(t, f) /\ ~scoreboard(t, f)
        /\ ~get_leaderboard(None, f) /\ ~scoreboard(None, f)

\* C10 witness: the game is finished while a team holds an Answer in the
\* closed final round (the state in which an unfinished game hides).
C10_Witness ==
    /\ game.is_finished
    /\ \E t \in Teams, f \in FinalRounds : HiddenCondition(t, f)

\* =================================================================
\* Properties of grading and settlement
\* =================================================================

\* no two positive-scoring free-text answers of team t in round r share a
\* normalized text (the state the dedup pass of utils.py:316-344 leaves)
Deduplicated(ans, t, r, qs) ==
    \A j, k \in 1..Len(qs) :
        j < k =>
            \A a, b \in ans :
                ( /\ a.team_id = t /\ a.round_id = r /\ a.question_id = qs[j]
                  /\ b.team_id = t /\ b.round_id = r /\ b.question_id = qs[k]
                  /\ Question(qs[j]).type = "text" /\ Question(qs[k]).type = "text"
                  /\ a.points > 0 /\ b.points > 0 )
                => Normalize(a.answer_text) # Normalize(b.answer_text)

\* C11: when a submission is accepted, the team's positive-scoring free-text
\* answers of that round have pairwise different normalized texts (the
\* later duplicates were set to 0 points).
C11_DedupAfterSubmit ==
    [][\A i \in Reqs :
          CommitStep(i) =>
              Deduplicated(answers', reqs[i].team, reqs[i].round, reqs[i].questions)]_vars

\* a set_betting_results request returns
SettleStep == job.pc = "ready" /\ job.kind = "betting" /\ job'.pc = "idle"

\* the answer text is a stake/choice object
WellFormedBet(a) == json_loads(a.answer_text).kind = "object"

\* the points the specification gives a bet with this stake and choice
ExpectedBetPoints(stake, choice, multipliers, results) ==
    LET places == {k \in 1..Len(results) : results[k] = choice}
        first  == CHOOSE k \in places : \A j \in places : k <= j
    IN IF places # {} /\ first <= Len(multipliers)
       THEN IF stake * multipliers[first] - stake > 0
            THEN stake * multipliers[first] - stake ELSE 0
       ELSE 0 - stake

\* C12: when set_betting_results returns, every well-formed bet it found on
\* the question has max(0, stake * multiplier - stake) points if its choice
\* placed with a multiplier, and -stake otherwise.
C12_SettledPoints ==
    [][SettleStep =>
          \A row \in job.rows :
              WellFormedBet(row)
              => \E a \in answers' :
                    /\ a.id = row.id
                    /\ a.points = ExpectedBetPoints(json_loads(row.answer_text).bet_amount,
                                                    json_loads(row.answer_text).choice,
                                                    Question(job.question).multipliers,
                                                    job.results)]_vars

\* C12, for the settlements that return success on rows no other request
\* changed since they were read.
C12_Undisturbed ==
    [][(SettleStep /\ job'.result = "ok") =>
          \A row \in job.rows :
              (WellFormedBet(row) /\ row \in answers)
              => \E a \in answers' :
                    /\ a.id = row.id
                    /\ a.points = ExpectedBetPoints(json_loads(row.answer_text).bet_amount,
                                                    json_loads(row.answer_text).choice,
                                                    Question(job.question).multipliers,
                                                    job.results)]_vars

\* C13: settlement is idempotent and history-independent: on every Answer
\* table, settling with order B after settling with order A (A = B included)
\* gives the table that settling with B alone gives.
C13_SettlementIdempotent ==
    \A r \in RoundIds, A \in FinishOrders, B \in FinishOrders :
        Settled(Settled(answers, r, BetQId, A), r, BetQId, B) = Settled(answers, r, BetQId, B)

\* C13 witness: a settlement with another finish order is under way on a
\* question whose bets were settled before, one of them with a win.
C13_Witness ==
    /\ job.pc = "ready"
    /\ rounds[job.round].betting_results # << >>
    /\ rounds[job.round].betting_results # job.results
    /\ \E row \in job.rows :
          /\ WellFormedBet(row)
          /\ row.points > 0

\* C14: an Answer whose text is not a well-formed bet is left unchanged by
\* set_betting_results, and the settlement completes: it returns success and
\* the other answers it read carry their settled points.
C14_MalformedLeftAlone ==
    [][SettleStep =>
          /\ job'.result = "ok"
          /\ \A a \in answers :
                (a.round_id = job.round /\ a.question_id = job.question /\ ~WellFormedBet(a))
                => a \in answers'
          /\ \A row \in job.rows :
                (WellFormedBet(row) /\ row \in answers)
                => \E a \in answers' :
                      /\ a.id = row.id
                      /\ a.points = SettledPoints(row, Question(job.question), job.results)]_vars

\* C15: a settlement that overlaps a submit_round ends as one of the serial
\* orders does: when it has committed, every well-formed bet on the question
\* carries the settled points of the bet it stores (the submission came
\* first) or the -stake of the bet it stores (the submission came last).
C15_SerialOutcome ==
    [][(SettleStep /\ job'.result = "ok") =>
          \A a \in answers' :
              (a.round_id = job.round /\ a.question_id = job.question /\ WellFormedBet(a))
              => \/ a.points = BetPoints(json_loads(a.answer_text),
                                         Question(job.question).multipliers, job.results)
                 \/ a.points = 0 - json_loads(a.answer_text).bet_amount]_vars

\* =================================================================
\* Properties of the totals (SpecTotals)
\* =================================================================

\* the closed form of the total: every Answer of the team contributes its
\* points plus bonus minus penalty, every custom score its value, and every
\* full 10 seconds of away time costs one point
RECURSIVE NetOfAnswers(_)
NetOfAnswers(rows) ==
    IF rows = {} THEN 0
    ELSE LET a == CHOOSE x \in rows : TRUE
         IN (a.points + a.bonus_points - a.penalty_points) + NetOfAnswers(rows \ {a})

FloorTenth(n) == CHOOSE k \in 0..n : 10 * k <= n /\ n < 10 * (k + 1)

\* C16: the leaderboard total of every team is sum(points) + sum(bonus) -
\* sum(penalty) over its Answers, plus its custom scores, minus
\* floor(tab_away_seconds / 10).
C16_LeaderboardTotal ==
    \A t \in Teams :
        total_points(t) =
            NetOfAnswers({a \in answers : a.team_id = t})
              + (IF "c1" \in DOMAIN teams[t].custom_scores
                 THEN teams[t].custom_scores["c1"] ELSE 0)
              + (IF "c2" \in DOMAIN teams[t].custom_scores
                 THEN teams[t].custom_scores["c2"] ELSE 0)
              - FloorTenth(teams[t].tab_away_seconds)

\* C16 witness: a team with answers carrying points, a bonus and a penalty,
\* a custom score and at least 10 seconds of away time.
C16_Witness ==
    \E t \in Teams :
        /\ \E a \in answers : a.team_id = t /\ a.points > 0
        /\ \E a \in answers : a.team_id = t /\ a.bonus_points > 0
        /\ \E a \in answers : a.team_id = t /\ a.penalty_points > 0
        /\ DOMAIN teams[t].custom_scores # {}
        /\ teams[t].tab_away_seconds >= 10

\* =================================================================
\* Properties of the navigation (SpecNav)
\* =================================================================

\* round r qualifies as destination for team t
Qualifies(t, r) ==
    /\ rounds[r].game_id = GameId
    /\ ~HasChildren(r)
    /\ rounds[r].is_open
    /\ TeamRoundAnswers(t, r) = {} \/ PermissionFor(t, r) # {}

\* position of round r in the stated sequence: top-level rounds before
\* child rounds, then ascending order value
Rank(r) == <<IF rounds[r].parent_id = None THEN 0 ELSE 1, rounds[r].order>>

RankLess(x, y) == x[1] < y[1] \/ (x[1] = y[1] /\ x[2] < y[2])

\* the first qualifying rounds of the sequence
FirstQualifying(t) ==
    {r \in RoundIds : Qualifies(t, r)
                      /\ \A x \in RoundIds : Qualifies(t, x) => ~RankLess(Rank(x), Rank(r))}

\* C17 as stated: next_questions sends the team to the first qualifying
\* round whenever one exists, and to no round otherwise.
C17_Original ==
    \A t \in Teams :
        TeamGame[t] = GameId =>
            /\ FirstQualifying(t) # {} =>
                  next_questions(t) = {[page |-> "round", round |-> r] : r \in FirstQualifying(t)}
            /\ \A resp \in next_questions(t) : resp.page = "round" => Qualifies(t, resp.round)

\* C17: while the game is not paused, next_questions sends the team to the
\* first round (top-level before child, then ascending order) that has no
\* children, is open and is unsubmitted or covered by a ResubmitPermission;
\* it never selects a container, a closed round or a submitted round without
\* permission.
C17_FirstQualifyingRound ==
    \A t \in Teams :
        TeamGame[t] = GameId =>
            /\ (game.pause_mode = NoPause /\ FirstQualifying(t) # {}) =>
                  next_questions(t) = {[page |-> "round", round |-> r] : r \in FirstQualifying(t)}
            /\ \A resp \in next_questions(t) : resp.page = "round" => Qualifies(t, resp.round)

\* C17 witness: an unpaused game in which the first round of the sequence is
\* a container, another is submitted without permission, and a later one
\* qualifies.
C17_Witness ==
    /\ game.pause_mode = NoPause
    /\ \E t \in Teams, r \in RoundIds :
          /\ TeamGame[t] = GameId
          /\ [page |-> "round", round |-> r] \in next_questions(t)
          /\ rounds[r].parent_id # None
          /\ \E x \in RoundIds : HasChildren(x)
          /\ \E x \in RoundIds : ~HasChildren(x) /\ rounds[x].is_open
                                 /\ TeamRoundAnswers(t, x) # {} /\ PermissionFor(t, x) = {}

\* C18: when no round qualifies (and the game is not paused), next_questions
\* reports game over exactly when every leaf round is closed and submitted
\* by the team, and the waiting state otherwise.
C18_GameOverOnLeaves ==
    \A t \in Teams :
        (TeamGame[t] = GameId /\ game.pause_mode = NoPause /\ FirstQualifying(t) = {}) =>
            LET leaves == {r \in GameRounds : ~HasChildren(r)}
                over   == \A r \in leaves : ~rounds[r].is_open /\ TeamRoundAnswers(t, r) # {}
            IN next_questions(t) = {[page |-> IF over THEN "game_over" ELSE "waiting",
                                     round |-> None]}

\* the open siblings of higher order that team t has not submitted
NextParts_Unsubmitted(t, r) ==
    {x \in RoundIds : /\ rounds[x].parent_id = rounds[r].parent_id
                      /\ rounds[x].order > rounds[r].order
                      /\ rounds[x].is_open
                      /\ TeamRoundAnswers(t, x) = {}}

\* C19: after an accepted submission of a sub-round the team is sent to the
\* lowest-ordered open sibling of higher order it has not submitted, if there
\* is one, and to the rounds menu otherwise.
C19_NextUnsubmittedSibling ==
    [][\A i \in Reqs :
          (CommitStep(i) /\ rounds[reqs[i].round].parent_id # None) =>
              (LET todo == NextParts_Unsubmitted(last.team, last.round)
               IN sibling_redirect(last.team, last.round) =
                     IF todo = {} THEN {None}
                     ELSE {x \in todo : \A y \in todo : rounds[x].order <= rounds[y].order})']_vars

\* =================================================================
\* Properties of the final round under reordering (SpecView)
\* =================================================================

\* the Round table after reorder_rounds has applied the item {id, order[,
\* parent_id]}
Reordered(id, order, has_parent, parent_id) ==
    [rounds EXCEPT ![id].order = order,
                   ![id].parent_id = IF has_parent THEN parent_id ELSE @]

\* the highest-order leaves of a Round table rs (None when it has no leaf)
FinalRoundsOf(rs) ==
    LET leaf == {r \in DOMAIN rs : /\ rs[r].game_id = GameId
                                   /\ \A c \in DOMAIN rs : rs[c].parent_id # r}
        top  == {r \in leaf : \A x \in leaf : rs[x].order <= rs[r].order}
    IN IF top = {} THEN {None} ELSE top

\* the decisions get_leaderboard can take for team t on the Round table rs
\* with the present answers and game flags
HiddenOn(rs, t) ==
    {IF game.is_finished \/ f = None THEN FALSE ELSE TeamRoundAnswers(t, f) # {}
     : f \in FinalRoundsOf(rs)}

\* C20: the final round is recomputed from the current round orders at every
\* visibility check: in every state the decision of get_leaderboard is the
\* one the present Round table gives, and a reorder_rounds step changes no
\* answer, no open flag and not is_finished, so that a decision that differs
\* after the step is due to the new orders and parents alone.
C20_FinalRoundRecomputed ==
    /\ [](\A t \in Teams :
            {get_leaderboard(t, f) : f \in FinalRounds} = HiddenOn(rounds, t))
    /\ [][\A id \in RoundIds, o \in 1..MaxOrder, hp \in BOOLEAN, p \in {None} \cup RoundIds :
            reorder_rounds(id, o, hp, p) =>
                /\ answers' = answers
                /\ game' = game
                /\ \A r \in RoundIds : rounds'[r].is_open = rounds[r].is_open
                /\ rounds' = Reordered(id, o, hp, p)
                /\ \A t \in Teams :
                      {get_leaderboard(t, f) : f \in FinalRounds}' =
                          HiddenOn(Reordered(id, o, hp, p), t)]_vars

\* C20 witness: the scores of a team are hidden, the game is not finished,
\* and one reorder_rounds item that moves a
\* round under another makes them shown.
C20_Witness ==
    /\ ~game.is_finished
    /\ \E t \in Teams :
          /\ HiddenOn(rounds, t) = {TRUE}
          /\ \E id \in RoundIds, o \in 1..MaxOrder, p \in RoundIds :
                /\ p # id
                /\ HiddenOn(Reordered(id, o, TRUE, p), t) = {FALSE}

\* the reverse case: the scores of a team that has answers are shown, and one
\* reorder_rounds item makes them hidden.
C20_WitnessReverse ==
    /\ ~game.is_finished
    /\ \E t \in Teams :
          /\ HiddenOn(rounds, t) = {FALSE}
          /\ \E id \in RoundIds, o \in 1..MaxOrder, p \in RoundIds :
                /\ p # id
                /\ HiddenOn(Reordered(id, o, TRUE, p), t) = {TRUE}

\* =================================================================
\* Properties of the dedup pass (SpecDedup)
\* =================================================================

\* the team has at most one Answer per question in the round
OneRowPerQuestion(ans, t, r) ==
    \A a, b \in ans :
        (a.team_id = t /\ a.round_id = r /\ b.team_id = t /\ b.round_id = r
         /\ a.question_id = b.question_id) => a.id = b.id

\* C21: the dedup pass is idempotent: for every set of a team's answers in
\* one round and every question list, a second run of
\* apply_round_deduplication leaves the points the first run left.
C21_DedupIdempotent ==
    \A t \in Teams, r \in RoundIds, qs \in DedupLists :
        \A once \in DedupOutcomes(answers, t, r, qs) :
            DedupOutcomes(once, t, r, qs) = {once}

\* the same with one Answer per question (holds)
C21_IdempotentOnSingleRows ==
    \A t \in Teams, r \in RoundIds, qs \in DedupLists :
        OneRowPerQuestion(answers, t, r) =>
            \A once \in DedupOutcomes(answers, t, r, qs) :
                DedupOutcomes(once, t, r, qs) = {once}

\* a call of apply_round_deduplication returns
DedupStep == job'.kind = "dedup" /\ job' # job

\* C22: apply_round_deduplication only demotes and only within its scope: a
\* call for (team, round) keeps every row, raises no points, and changes
\* nothing but the points of answers of (team, round) to free-text questions.
C22_DemotesWithinScope ==
    [][DedupStep =>
          /\ \E t \in Teams :
                job'.rows = {a \in answers : a.team_id = t /\ a.round_id = job'.round}
          /\ {a.id : a \in answers'} = {a.id : a \in answers}
          /\ Cardinality(answers') = Cardinality(answers)
          /\ \A a \in answers :
                \E b \in answers' :
                    /\ b.id = a.id
                    /\ b.points <= a.points
                    /\ [b EXCEPT !.points = a.points] = a
                    /\ b # a => /\ a \in job'.rows
                                /\ Question(a.question_id).type = "text"]_vars

\* C22 witness: a call has set an answer to 0, and has left with its points
\* an answer of the same normalized text that is out of its scope (another
\* team, another round or a betting question).
C22_Witness ==
    /\ job.kind = "dedup"
    /\ \E a \in job.rows, b \in answers, c \in answers :
          /\ b.id = a.id /\ a.points > 0 /\ b.points = 0
          /\ c.id # a.id /\ c.points > 0
          /\ Normalize(c.answer_text) = Normalize(a.answer_text)
          /\ (c \notin job.rows \/ Question(c.question_id).type # "text")

\* =================================================================
\* Properties of the stake at submission (SpecStake)
\* =================================================================

\* the submitted amount of form v, an unparsable one counting as 1
PostedAmount(v) ==
    IF IsNumeral(BetForm(v).bet_amount) THEN IntOf(BetForm(v).bet_amount) ELSE 1

\* the betting answers the accepted request i has written have stake and
\* points as the relation Stake(amount, max_bet, s) tells
StakesRecorded(i, Stake(_, _, _)) ==
    \A k \in 1..Len(reqs[i].questions) :
        LET q == Question(reqs[i].questions[k])
        IN q.type = "betting" =>
              \E a \in answers' :
                  /\ a.team_id = reqs[i].team /\ a.round_id = reqs[i].round
                  /\ a.question_id = q.id
                  /\ json_loads(a.answer_text).kind = "object"
                  /\ json_loads(a.answer_text).choice = BetForm(reqs[i].text).bet_choice
                  /\ a.points = 0 - json_loads(a.answer_text).bet_amount
                  /\ Stake(PostedAmount(reqs[i].text), q.max_bet,
                           json_loads(a.answer_text).bet_amount)

\* s is the amount n brought into the range 1..max_bet
InRange(n, max_bet, s) ==
    /\ 1 <= s /\ s <= max_bet
    /\ (1 <= n /\ n <= max_bet) => s = n

\* s is the amount n lowered to max_bet and then raised to 1
LoweredThenRaised(n, max_bet, s) ==
    s = (IF n > max_bet
         THEN (IF max_bet < 1 THEN 1 ELSE max_bet)
         ELSE (IF n < 1 THEN 1 ELSE n))

\* C23 as stated: a submitted betting answer records points -s and stake s,
\* s the submitted amount clamped to at least 1 and at most max_bet.
C23_Original ==
    [][CommitStep(1) => StakesRecorded(1, InRange)]_vars

\* C23: a submitted betting answer records points -s and stake s, where s is
\* the submitted amount (1 when unparsable) lowered to max_bet and then
\* raised to 1, so that s is 1 when max_bet is below 1; no win or loss is
\* applied at submission.
C23_StakeAtSubmission ==
    [][CommitStep(1) => StakesRecorded(1, LoweredThenRaised)]_vars

\* C23 witness: a stake of 9 on the question with max_bet 3 was accepted and
\* is recorded as stake 3 with -3 points.
C23_Witness ==
    /\ last.result = "accepted"
    /\ BetForm(last.text).bet_amount = "9"
    /\ \E a \in answers :
          /\ a.team_id = last.team /\ a.round_id = last.round
          /\ a.question_id = BetQId /\ a.points = 0 - 3
          /\ json_loads(a.answer_text).bet_amount = 3

\* =================================================================
\* Properties of the broadcasts (SpecEmit)
\* =================================================================

\* the Answer rows whose points the step has set or changed
PointsChanged ==
    {a \in answers' : \A b \in answers : b.id = a.id => b.points # a.points}

\* the attempt e names the round, the question, the team or the id of a
Identifies(e, a) ==
    \/ e.round_id = a.round_id
    \/ e.question_id = a.question_id
    \/ e.team_id = a.team_id
    \/ e.answer_id = a.id

\* the step has run an emit whose payload names the answer a
EmitsFor(a) ==
    \E k \in 1..Len(socket'.log) : Identifies(socket'.log[k], a)

\* the step is a request of update_question
UpdateQuestionStep ==
    \E r \in RoundIds, q \in {"q1", BetQId}, keys \in EmitKeys : update_question(r, q, keys)

\* C24: every operation that changes the points of an Answer (grading at
\* submission, betting settlement, score override, text edit, re-grade after
\* a question edit) runs at least one emit whose payload names the round,
\* question, team or answer affected.
C24_PointsChangeEmits ==
    [][\A a \in PointsChanged : EmitsFor(a)]_vars

\* the same for every operation but update_question (holds)
C24_EmitsUnlessQuestionEdit ==
    [][~UpdateQuestionStep => \A a \in PointsChanged : EmitsFor(a)]_vars

\* a request returns in this step (the other steps are the reads of a
\* request that goes on to its commit)
Returns ==
    /\ \A i \in Reqs : ~(reqs[i].pc = "idle" /\ reqs'[i].pc = "ready")
    /\ ~(job.pc = "idle" /\ job'.pc = "ready")

\* the broadcast block of the request that returns in this step was left by
\* a raising emit of the handler source
EmitRaised(source) ==
    /\ Returns
    /\ socket'.log # << >>
    /\ socket'.log[Len(socket'.log)].source = source
    /\ ~socket'.log[Len(socket'.log)].ok

\* C25: a failing broadcast never fails or undoes the state mutation it
\* follows: when an emit of submit_round, toggle_round, update_answer_score,
\* set_betting_results or tick_away_time raises, the request has committed
\* its writes and returns its success result.
C25_EmitFailureHarmless ==
    [][/\ EmitRaised("submit_round") =>
             /\ last'.result = "accepted"
             /\ HoldsAll(answers', last'.team, last'.round, <<"q1">>, last'.text)
             /\ \E a \in answers' :
                   /\ a.team_id = last'.team /\ a.round_id = last'.round
                   /\ a.question_id = BetQId
                   /\ a.answer_text = SubmittedText(Question(BetQId), last'.text)
             /\ \A p \in perms' : p.id # last'.perm
       /\ EmitRaised("toggle_round") =>
             LET r == socket'.log[1].round_id
             IN /\ rounds'[r].is_open = ~rounds[r].is_open
                /\ answers' = answers
       /\ EmitRaised("update_answer_score") =>
             \E a \in answers' : a.id = socket'.log[1].answer_id /\ a.points = EmitScore
       /\ EmitRaised("set_betting_results") =>
             /\ job'.result = "ok"
             /\ rounds'[job.round].betting_results = job.results
             /\ answers' = SettleWrites(answers, job.rows, Question(job.question), job.results)
       /\ EmitRaised("tick_away_time") =>
             LET t == socket'.log[1].team_id
             IN teams'[t].tab_away_seconds = teams[t].tab_away_seconds + 1]_vars

\* C25 witness: the emit of a submit_round has raised, and the request was
\* accepted with its answers stored.
C25_Witness ==
    /\ socket.log # << >>
    /\ socket.log[1].source = "submit_round" /\ ~socket.log[1].ok
    /\ last.result = "accepted"
    /\ TeamRoundAnswers(last.team, last.round) # {}

\* =================================================================
\* Properties of the ranking (SpecRank)
\* =================================================================

\* the sequence has one element for each team of the game, the team being
\* the field the operator who gives
OnePerTeam(seq, who(_)) ==
    /\ Len(seq) = Cardinality(TeamsOfGame)
    /\ \A t \in TeamsOfGame : \E k \in 1..Len(seq) : who(seq[k]) = t

\* the keys of the sequence never increase
Descending(seq, key(_)) ==
    \A j, k \in 1..Len(seq) : j < k => key(seq[j]) >= key(seq[k])

SlotScore(q, player_order, k) ==
    LET at == {j \in 1..Len(q.items) : q.items[j] = player_order[k]}
    IN IF at = {} THEN 0
       ELSE IF k \in at THEN q.points_exact
       ELSE IF \E j \in at : Abs(j - k) = 1 THEN q.points_adjacent
       ELSE 0

RECURSIVE SumSlots(_, _, _)
SumSlots(q, player_order, k) ==
    IF k > Len(player_order) THEN 0
    ELSE SlotScore(q, player_order, k) + SumSlots(q, player_order, k + 1)

\* the accepted request has stored, for every ordering question in qids, the
\* posted ordering with the sum of its slot scores
OrderingsScored(i, qids) ==
    \A k \in 1..Len(reqs[i].questions) :
        LET q == Question(reqs[i].questions[k])
        IN (q.type = "ordering" /\ q.id \in qids) =>
              \E a \in answers' :
                  /\ a.team_id = reqs[i].team /\ a.round_id = reqs[i].round
                  /\ a.question_id = q.id
                  /\ a.answer_text = json_dumps_list(PlayerOrder(q, reqs[i].text))
                  /\ a.points = SumSlots(q, PlayerOrder(q, reqs[i].text), 1)

\* C27: an ordering answer scores the sum over its slots of points_exact for
\* an item at its correct index, points_adjacent for an item one position
\* from its correct index, 0 otherwise and 0 for an item not in the correct
\* set.
C27_OrderingScore ==
    [][CommitStep(1) => OrderingsScored(1, {"q6", "q7"})]_vars

\* the same for the question whose items are all different (holds)
C27_ScoreOnDistinctItems ==
    [][CommitStep(1) => OrderingsScored(1, {"q6"})]_vars

\* the example of the claim: correct [A, B, C], exact 2, adjacent 1, the
\* submission [A, C, B] is stored with 4 points
C27_Example ==
    /\ last.result = "accepted"
    /\ \E a \in answers :
          /\ a.question_id = "q6"
          /\ a.answer_text = "[\"A\", \"C\", \"B\"]"
          /\ a.points = 4

\* ---- Estimates ----------------------------------------------------------

EstimateQIds == {"q8", "q9", "q10"}

\* the stored estimates of a question that are numbers
Estimates(qid) ==
    {a \in answers : a.question_id = qid /\ IsNumber(a.answer_text)}

\* the band of the relative error of a stored estimate: 0 exact, 1 up to
\* 10%, 2 up to 20%, 3 up to 30%, 4 beyond (every miss of a correct answer 0
\* is beyond)
Band(a) ==
    LET c == NumberOf(Question(a.question_id).correct_answer)
        p == NumberOf(a.answer_text)
        miss == IF p < c THEN c - p ELSE p - c
    IN IF miss = 0 THEN 0
       ELSE IF c = 0 THEN 4
       ELSE IF 10 * miss <= c THEN 1
       ELSE IF 10 * miss <= 2 * c THEN 2
       ELSE IF 10 * miss <= 3 * c THEN 3
       ELSE 4

\* the stored points of the estimates of a question never rise with the band
\* of the error, and are 0 beyond 30%
StepFunction(qid) ==
    \A a \in Estimates(qid) :
        /\ Band(a) = 4 => a.points = 0
        /\ \A b \in Estimates(qid) : Band(a) <= Band(b) => a.points >= b.points

\* the configured points of the question fall from exact to 30% and are not
\* negative
Graded(q) ==
    /\ q.points_exact >= q.points_10
    /\ q.points_10 >= q.points_20
    /\ q.points_20 >= q.points_30
    /\ q.points_30 >= 0

\* C28 as stated: for every question configuration the estimate score is a
\* non-increasing step function of the relative error, score(exact) >=
\* score(<= 10%) >= score(<= 20%) >= score(<= 30%) >= score(> 30%) = 0.
\* Violated: the four points are free configuration values, and with
\* points_exact 1 and points_10 3 an exact estimate scores less than one
\* that is 10% off.
C28_Original ==
    \A qid \in EstimateQIds : StepFunction(qid)

\* C28, amended: the estimate score is a non-increasing step function of the
\* relative error for every question whose configured points satisfy
\* points_exact >= points_10 >= points_20 >= points_30 >= 0.
C28_StepFunctionWhenGraded ==
    \A qid \in EstimateQIds : Graded(Question(qid)) => StepFunction(qid)

\* two teams estimated the question with the default points: one exactly,
\* for 4 points, one 40% off, for none
C28_Witness ==
    \E a, b \in Estimates("q8") :
        /\ Band(a) = 0 /\ a.points = 4
        /\ Band(b) = 4 /\ b.points = 0

\* ---- Re-grading ---------------------------------------------------------

\* the points of the stored Answer are those submit_round gives to every
\* submission of its question that is stored with the same text
GradedAsSubmitted(a) ==
    \A v \in RegradeForms :
        SubmittedText(Question(a.question_id), v) = a.answer_text
            => a.points = SubmittedPoints(Question(a.question_id), v)

\* some submission of the question is stored with the text of the Answer
Submittable(a) ==
    \E v \in RegradeForms : SubmittedText(Question(a.question_id), v) = a.answer_text

\* C29: re-grading agrees with submission grading: for every question type
\* and every answer text, the points update_question and update_answer_text
\* assign equal the points submit_round assigns to the same text under the
\* same question configuration; an ordering or betting answer keeps its
\* points when the question is edited with its scoring configuration
\* unchanged.
C29_RegradeAgrees ==
    \A a \in answers : GradedAsSubmitted(a)

\* the same for the free-text and estimate answers only (holds)
C29_RegradeAgreesOnTextAndEstimate ==
    \A a \in answers :
        Question(a.question_id).type \in {"text", "estimate"} => GradedAsSubmitted(a)

\* a stake and an ordering that were submitted with points stand at 0 points
\* after a re-grade, next to an estimate that kept its 4
C29_Regraded ==
    /\ \E a \in answers :
          a.question_id = "q3" /\ Submittable(a) /\ a.points = 0
    /\ \E a \in answers :
          a.question_id = "q6" /\ Submittable(a) /\ a.points = 0
    /\ \E a \in answers :
          a.question_id = "q8" /\ a.answer_text = "10" /\ a.points = 4

\* ---- Submissions after the settlement -----------------------------------

\* the bets that team t holds on the betting question of round r after the
\* step, for which the round has results stored
BetsAfterResults(t, r) ==
    {a \in answers' : /\ a.team_id = t /\ a.round_id = r
                      /\ a.question_id = BetQId
                      /\ json_loads(a.answer_text).kind = "object"
                      /\ rounds'[r].betting_results # << >>}

\* C30: once betting results are stored for a question, every well-formed
\* bet Answer on it carries its settled value: an accepted submission or
\* permitted resubmission to the still-open round does not leave an answer
\* at the provisional -stake when its choice placed with a multiplier.
C30_SubmissionSettled ==
    [][CommitStep(1) =>
          \A a \in BetsAfterResults(reqs[1].team, reqs[1].round) :
              a.points = BetPoints(json_loads(a.answer_text),
                                   Question(BetQId).multipliers,
                                   rounds'[a.round_id].betting_results)]_vars

\* results h1, h2 are stored and the team holds a stake of 2 on the winner
\* at the provisional -2 instead of the settled 4
C30_Provisional ==
    /\ last.result = "accepted"
    /\ \E a \in answers :
          /\ a.question_id = BetQId
          /\ rounds[a.round_id].betting_results = <<"h1", "h2">>
          /\ json_loads(a.answer_text).kind = "object"
          /\ json_loads(a.answer_text).choice = "h1"
          /\ json_loads(a.answer_text).bet_amount = 2
          /\ a.points = -2

\* ---- Answers and games --------------------------------------------------

\* the Answer is held by a team of the game its round belongs to
WithinGame(a) == TeamGame[a.team_id] = rounds[a.round_id].game_id

\* C31: no operation records an Answer for a team against a round of a game
\* the team does not belong to: in every reachable state the team and the
\* round of each Answer belong to the same game.
C31_AnswersWithinGame ==
    \A a \in answers : WithinGame(a)

\* the part of C31 on submit_round: a submission by a team of another game
\* is rejected and writes nothing, and an accepted one writes Answers of the
\* team's own game only (holds)
C31_SubmitWithinGame ==
    [][/\ (last'.result = "rejected_game" /\ last' # last) => answers' = answers
       /\ (\E i \in Reqs : CommitStep(i)) =>
              \A a \in answers' \ answers : WithinGame(a)]_vars

\* the admin's create_answer stored an Answer of a team of another game
C31_ForeignAnswer ==
    \E a \in answers : ~WithinGame(a) /\ a.question_id = BetQId

\* ---- Permissions --------------------------------------------------------

\* the two grants ran for the same team and round, and neither saw a
\* permission when it looked
Overlapped(c, d) ==
    /\ calls[c].op = "grant" /\ calls[d].op = "grant"
    /\ calls[c].pc = "done" /\ calls[d].pc = "done"
    /\ calls[c].team = calls[d].team /\ calls[c].round = calls[d].round
    /\ calls[c].seen = 0 /\ calls[d].seen = 0
    /\ calls[c].result # "rejected_game" /\ calls[d].result # "rejected_game"

\* C32: in every reachable state there is at most one ResubmitPermission per
\* (team, round): clear_team_submission called when a permission exists
\* creates nothing, and two concurrent grants of the same pair leave one
\* permission.
C32_OnePermissionPerPair ==
    \A p, q \in perms : (p.team_id = q.team_id /\ p.round_id = q.round_id) => p = q

\* two grants of the same pair overlapped: one was answered, the other
\* failed on the unique constraint, and one permission exists
C32_Witness ==
    /\ Overlapped(1, 2)
    /\ calls[1].result = "ok" /\ calls[2].result = "error"
    /\ Cardinality(PermissionFor(calls[1].team, calls[1].round)) = 1

\* the step stores a new ResubmitPermission
GrantStep == \E p \in perms' : p \notin perms

\* C33: granting a resubmission (clear_team_submission) leaves every Answer
\* unchanged: the team's answers of the round keep their text, points, bonus
\* and penalty until a resubmission overwrites them.
C33_GrantKeepsAnswers ==
    [][GrantStep => answers' = answers]_vars

\* a team that answered the round for 1 point holds a permission for it, its
\* Answer as it was submitted
C33_Witness ==
    \E p \in perms : \E a \in answers :
        /\ a.team_id = p.team_id /\ a.round_id = p.round_id
        /\ a.answer_text = "a" /\ a.points = 1

\* ---- Resubmissions ------------------------------------------------------

\* every Answer of before the step is there after it with the same team,
\* round, question, bonus and penalty
AdjustmentsKept ==
    \A a \in answers : \E b \in answers' :
        /\ b.id = a.id /\ b.team_id = a.team_id /\ b.round_id = a.round_id
        /\ b.question_id = a.question_id
        /\ b.bonus_points = a.bonus_points
        /\ b.penalty_points = a.penalty_points

\* C34: a permitted resubmission replaces only the text, points and
\* submission time of each existing Answer: bonus_points and penalty_points
\* set by the admin before it are unchanged after it.
C34_ResubmitKeepsAdjustments ==
    [][(CommitStep(1) /\ reqs[1].existing # {}) => AdjustmentsKept]_vars

\* a resubmission with text b was accepted on a permission, and the Answers
\* it rewrote carry a bonus and a penalty of 2
C34_Witness ==
    /\ last.result = "accepted" /\ last.perm # None /\ last.text = "b"
    /\ \E a \in answers : a.answer_text = "b" /\ a.bonus_points = 2
    /\ \E a \in answers : a.answer_text = "b" /\ a.penalty_points = 2

\* ---- Away time ----------------------------------------------------------

\* the step leaves the counters of every team but t, and the tab switches
\* of t, as they were
OnlyAwayTimeOf(t) ==
    /\ teams'[t].tab_switch_count = teams[t].tab_switch_count
    /\ teams'[t].custom_scores = teams[t].custom_scores
    /\ \A u \in DOMAIN teams : u # t => teams'[u] = teams[u]

\* the statement of C35 for a tick_away_time request that no other request
\* overlaps: it adds exactly 1 to the calling team's tab_away_seconds when
\* tab-penalty tracking is enabled, the game is not paused and a round of
\* the game is open, in every other case leaves it unchanged, and never
\* changes tab_switch_count or another team's counters (holds)
C35_TickAloneAddsOne ==
    [][\A t \in AwayTeams :
          tick_away_time(t) =>
              /\ teams'[t].tab_away_seconds =
                     IF /\ game.tab_penalty_enabled
                        /\ game.pause_mode = NoPause
                        /\ \E r \in RoundIds : rounds[r].game_id = GameId /\ rounds[r].is_open
                     THEN teams[t].tab_away_seconds + 1
                     ELSE teams[t].tab_away_seconds
              /\ OnlyAwayTimeOf(t)]_vars

\* team 3 has ticked twice next to team 1, which was counted a tab switch
\* and no away time
C35_Witness ==
    /\ teams[3].tab_away_seconds = 2 /\ teams[3].tab_switch_count = 0
    /\ teams[1].tab_away_seconds = 0 /\ teams[1].tab_switch_count = 1

\* ---- Overlapping ticks --------------------------------------------------

\* the requests on the away time of team t that have returned success
Accepted(t) ==
    {c \in Calls : calls[c].pc = "done" /\ calls[c].team = t /\ calls[c].result = "ok"}

\* the away time after the requests of order[k..] ran one after the other
\* from the value secs
RECURSIVE Serial(_, _, _)
Serial(order, k, secs) ==
    IF k > Len(order) THEN secs
    ELSE Serial(order, k + 1,
                IF calls[order[k]].op = "tick" THEN secs + 1 ELSE calls[order[k]].value)

\* the values the away time of a new team can have after the accepted
\* requests ran in some serial order
SerialOutcomes(t) == {Serial(order, 1, 0) : order \in Orders(Accepted(t))}

\* no request on the away time is between its read and its commit
Quiet == \A c \in Calls : calls[c].pc # "read"

\* C40: every accepted tick counts: when the tick_away_time requests of one
\* team all report success, possibly interleaved with each other and with an
\* admin set_tab_away_seconds, the stored tab_away_seconds equals the result
\* of applying those operations in some serial order.
C40_TicksSerialisable ==
    Quiet => \A t \in AwayTeams : teams[t].tab_away_seconds \in SerialOutcomes(t)

\* two ticks of team 1 both reported success, no other request touched the
\* team, and its away time is 1
C40_LostTick ==
    /\ Accepted(1) = {1, 2}
    /\ calls[1].op = "tick" /\ calls[2].op = "tick"
    /\ calls[SetCall].team # 1
    /\ teams[1].tab_away_seconds = 1

\* the step in which the tick_away_time request of slot c commits and
\* reports success
TickCommitStep(c) ==
    calls[c].pc = "read" /\ calls[c].op = "tick" /\ calls'[c].pc = "done"

\* C35: tick_away_time adds exactly 1 to the calling team's
\* tab_away_seconds when tab-penalty tracking is enabled, the game is not
\* paused and a round of the game is open, and never changes
\* tab_switch_count or another team's counters: the away time stored when
\* an accepted tick returns is 1 more than the away time stored before.
C35_TickAddsOne ==
    [][\A c \in TickCalls :
          TickCommitStep(c) =>
              /\ teams'[calls[c].team].tab_away_seconds =
                     teams[calls[c].team].tab_away_seconds + 1
              /\ OnlyAwayTimeOf(calls[c].team)]_vars

\* ---- Pause --------------------------------------------------------------

\* the step is a request of tick_away_time or report_away_time
AwayReportStep ==
    \/ \E t \in AwayTeams : tick_away_time(t)
    \/ \E t \in AwayTeams, sec \in AwayReports : report_away_time(t, sec)

\* C36: while the game is paused (pause_mode set) no team's
\* tab_away_seconds increases, through tick_away_time or report_away_time,
\* whatever set_game_pause and toggle_tab_penalty calls came before.
C36_NoAwayTimeWhilePaused ==
    [][(game.pause_mode # NoPause /\ AwayReportStep) =>
          \A t \in DOMAIN teams :
              teams'[t].tab_away_seconds <= teams[t].tab_away_seconds]_vars

\* the same for tick_away_time alone (holds)
C36_NoTickWhilePaused ==
    [][\A t \in AwayTeams :
          (game.pause_mode # NoPause /\ tick_away_time(t)) => teams' = teams]_vars

\* the game is paused with tracking switched on again, and a team has away
\* time
C36_CountedWhilePaused ==
    /\ game.pause_mode = "halftime" /\ game.tab_penalty_enabled
    /\ teams[1].tab_away_seconds = 2

\* the Game row after the game, running, is paused with mode m and then
\* resumed
PausedAndResumed(m) == Paused(Paused(game, m), NoPause)

\* C37: pausing a running game disables tab-penalty tracking and resuming
\* restores it: after set_game_pause to a pause mode followed by
\* set_game_pause to null, tab_penalty_enabled equals the value it had
\* before the pause.
C37_ResumeRestoresTracking ==
    game.pause_mode = NoPause =>
        \A m \in {"starting", "halftime"} :
            /\ ~Paused(game, m).tab_penalty_enabled
            /\ PausedAndResumed(m).tab_penalty_enabled = game.tab_penalty_enabled

\* the same for a game that is running with tracking on (holds)
C37_ResumeRestoresTrackingWhenOn ==
    (game.pause_mode = NoPause /\ game.tab_penalty_enabled) =>
        \A m \in {"starting", "halftime"} :
            /\ ~Paused(game, m).tab_penalty_enabled
            /\ PausedAndResumed(m).tab_penalty_enabled = game.tab_penalty_enabled

\* resuming always switches tracking on (holds): a step from a paused game
\* to a running one ends with tab_penalty_enabled
C37_ResumeSwitchesOn ==
    [][(game.pause_mode # NoPause /\ game'.pause_mode = NoPause) =>
          game'.tab_penalty_enabled]_vars

\* the game is running with tracking switched off by the admin
C37_RunningWithTrackingOff ==
    game.pause_mode = NoPause /\ ~game.tab_penalty_enabled

\* C38: while the game is paused (pause_mode set) no team submission is
\* accepted: submit_round writes no Answer and consumes no permission.
C38_NoSubmissionWhilePaused ==
    [][(game.pause_mode # NoPause /\ CommitStep(1)) =>
          (answers' = answers /\ perms' = perms)]_vars

\* no submit_round request passes its checks while the game is paused
C38_RejectedWhilePaused ==
    [][(game.pause_mode # NoPause /\ reqs[1].pc = "idle") => reqs'[1].pc = "idle"]_vars

\* the game is paused at half time and the submission that returned last
\* was accepted on a permission, its answers stored
C38_AcceptedWhilePaused ==
    /\ game.pause_mode = "halftime"
    /\ last.result = "accepted" /\ last.perm # None
    /\ \E a \in answers : a.team_id = last.team /\ a.answer_text = last.text

\* ---- Sheet and leaderboard ----------------------------------------------

\* C39: in every reachable state the total the admin spreadsheet
\* (get_game_answers) reports for a team equals the total get_leaderboard
\* reports for it, including after update_questions removed a question that
\* teams had already answered.
C39_SheetEqualsLeaderboard ==
    \A t \in GameTeams : total_score(t) = {total_points(t)}

\* the same while every Answer of the team belongs to a question its round
\* still lists (holds)
C39_EqualWhileQuestionsListed ==
    (\A a \in answers :
        \E k \in 1..Len(rounds[a.round_id].questions) :
            rounds[a.round_id].questions[k] = a.question_id)
    => \A t \in GameTeams : total_score(t) = {total_points(t)}

\* the round lists no question any more, the team's two answers count 2 on
\* the leaderboard and nothing on the sheet
C39_Orphaned ==
    /\ rounds[1].questions = << >>
    /\ total_points(1) = 2
    /\ total_score(1) = {0}

====
